---- MODULE Spec2Model ----
(***************************************************************************)
(* Verification model of the finance-report-app repository:                *)
(*   - ft3.py   : the Streamlit financial simulator (session state, pages, *)
(*                JSON save / load, CSV import, amortization, PDF report)  *)
(*   - p4.py / proto2.py : the report builder with form persistence        *)
(*   - wifi_analyzer.py  : the monitor thread of the WiFi analyzer         *)
(*                                                                         *)
(* Amounts of the pages are integers counted in centimes (0.01 DHS), so    *)
(* the defaults of init_session_state are exact and the balance sheet      *)
(* tolerance of 0.01 is one unit.  The amortization schedule is computed   *)
(* in binary floating point with a significand of MantissaBits bits and    *)
(* rounding to nearest, ties to even.  A Python dict is a function whose   *)
(* DOMAIN is its key set.                                                  *)
(***************************************************************************)
EXTENDS Integers, Sequences, FiniteSets, TLC

VARIABLES
    app,          \* which script the process runs: "ft3", "p4" or "proto2"
    session,      \* ft3: st.session_state (dict: key -> value)
    choice,       \* ft3: the page selected in the sidebar selectbox
    uploaded,     \* ft3: content held by the sidebar JSON file_uploader
    download,     \* ft3: data_json handed to the download button by the last run
    savedFile,    \* ft3: the JSON file the user saved with the download button
    lastEvent,    \* the user interaction that triggered the last script run
    wrote,        \* TRUE iff the last script run wrote the save file
    verdict,      \* ft3: what the last script run reported on the Bilan page
    saveFile,     \* p4 / proto2: content of glove_voice_data.json
    p4page,       \* p4 / proto2: the page selected in the sidebar
    events,       \* number of user interactions so far
    monitoring,        \* wifi: WiFiNetworkAnalyzer.monitoring
    monitoring_active, \* wifi: st.session_state.monitoring_active
    history,           \* wifi: WiFiNetworkAnalyzer.history (record stamps)
    pc,                \* wifi: position of each monitor thread in monitor_loop
    interval,          \* wifi: the interval each monitor thread was started with
    caught,            \* wifi: the threads that have handled an exception
    sinceStop,         \* wifi: records each thread appended while monitoring is False
    stamp,             \* wifi: number of records appended so far
    recordCap,         \* wifi: number of appends explored in a run
    measured,          \* wifi: the last call of calculate_rssi_distance
    last_scan,         \* wifi: profiles, devices and positions of the last report
    credit,        \* amortization: the credit being amortized
    frequency,     \* amortization: "Frequence de remboursement"
    grace_period,  \* amortization: "Periode de grace (mois)"
    view,          \* amortization: "page" (show_amortization) or "pdf" (report table)
    phase,         \* amortization: position in the schedule computation
    payment,       \* amortization: the periodic payment
    balance,       \* amortization: the running balance
    schedule,      \* amortization: the rows built so far
    pdfStage,      \* report: position in generate_pdf_report
    report_name,   \* report: the report name, a sequence of code points
    sections,      \* report: the sections to include
    fpdf,          \* report: the installed FPDF library
    pdfAt,         \* report: index of the section block being executed
    pdfFailed,     \* report: TRUE iff a step of the generation has raised
    pdfResult,     \* report: what the call returned
    cashflow,      \* monthly cash flow: the inputs and outputs of the last run
    imported,      \* CSV import: the table read and what process_with_ai returned
    vat,           \* VAT budget: the widgets, the data and the outputs of the last run
    statement      \* credits, cash_flow_params and income_statement of st.session_state

appVars == <<app, session, choice, uploaded, download, savedFile, lastEvent, wrote, verdict,
             saveFile, p4page, events>>

wifiVars == <<monitoring, monitoring_active, history, pc, interval, caught,
              sinceStop, stamp, recordCap, measured, last_scan>>

amortVars == <<credit, frequency, grace_period, view, phase, payment, balance, schedule>>

pdfVars == <<pdfStage, report_name, sections, fpdf, pdfAt, pdfFailed, pdfResult>>

tableVars == <<cashflow, imported, vat, statement>>

vars == <<appVars, wifiVars, amortVars, pdfVars, tableVars>>

\* the variables each subsystem leaves alone
notAppVars   == <<wifiVars, amortVars, pdfVars, tableVars>>
notWifiVars  == <<appVars, amortVars, pdfVars, tableVars>>
notAmortVars == <<appVars, wifiVars, pdfVars, tableVars>>
notPdfVars   == <<appVars, wifiVars, amortVars, tableVars>>
notTableVars == <<appVars, wifiVars, amortVars, pdfVars>>

(***************************************************************************)
(* Bounds of the exploration                                               *)
(***************************************************************************)
MaxEvents == 3      \* user interactions per session
MaxRows   == 2      \* rows of the immos / credits / subsidies tables
MaxThreads == 2     \* monitor threads started in one session
MaxRecords == 4     \* records appended to the history
MaxAppends == 103   \* appends followed with one monitor thread
MaxAccessPoints == 4    \* access points of a network report
MaxImportRows == 2  \* lines of an imported CSV file
MaxCredits == 2     \* credits added on the Investments page
MantissaBits == 12  \* significand width of the modelled binary floats

(***************************************************************************)
(* Generic helpers                                                         *)
(***************************************************************************)
EmptyDict == [k \in {} |-> 0]

\* d[key] = value of a Python dict (the key is created when absent)
DictSet(d, key, value) ==
    [k \in DOMAIN d \cup {key} |-> IF k = key THEN value ELSE d[k]]

\* d.get(key, default)
DictGet(d, key, default) == IF key \in DOMAIN d THEN d[key] ELSE default

RECURSIVE SumField(_, _)
SumField(rows, field) ==
    IF rows = <<>> THEN 0
    ELSE Head(rows)[field] + SumField(Tail(rows), field)

RemoveAt(seq, i) == [j \in 1..(Len(seq) - 1) |-> IF j < i THEN seq[j] ELSE seq[j + 1]]

Abs(x) == IF x < 0 THEN -x ELSE x

(***************************************************************************)
(* Floating point.  Python's float is binary floating point: every         *)
(* operation returns the exact result rounded to the nearest representable *)
(* value, ties to even.  The model keeps the format and the rounding rule  *)
(* and narrows the significand from 53 bits to MantissaBits.  A float is   *)
(* <<m, e>>, standing for m * 2^e, with 2^(MantissaBits-1) <= |m| <        *)
(* 2^MantissaBits, or <<0, 0>>.                                            *)
(***************************************************************************)
FZero == <<0, 0>>

\* the number of bits of n > 0
BitLength(n) == CHOOSE b \in 1..30 : 2^(b - 1) <= n /\ n < 2^b

\* n / d * 2^e with n / d in [2^(MantissaBits-1), 2^MantissaBits], rounded to
\* an integer significand, ties to even
RoundScaled(n, d, e) ==
    LET q == n \div d
        r == n % d
        m == IF 2 * r > d \/ (2 * r = d /\ q % 2 = 1) THEN q + 1 ELSE q
    IN  IF m = 2^MantissaBits THEN <<2^(MantissaBits - 1), e + 1>> ELSE <<m, e>>

\* n / d * 2^(e + k), the same value, as n / d * 2^e with n / d scaled by 2^-k
Scaled(n, d, e, k) ==
    IF k >= 0 THEN RoundScaled(n, d * 2^k, e + k) ELSE RoundScaled(n * 2^(0 - k), d, e + k)

\* n / d * 2^e (n >= 0, d > 0) rounded to MantissaBits bits
FRound(n, d, e) ==
    IF n = 0 THEN FZero
    ELSE LET k == BitLength(n) - BitLength(d) - MantissaBits
         IN  IF k >= 0 /\ n \div d >= 2^(MantissaBits + k) THEN Scaled(n, d, e, k + 1)
             ELSE IF k < 0 /\ (n * 2^(0 - k)) \div d >= 2^MantissaBits
                  THEN Scaled(n, d, e, k + 1)
             ELSE Scaled(n, d, e, k)

FNeg(a) == <<0 - a[1], a[2]>>

FSigned(negative, a) == IF negative THEN FNeg(a) ELSE a

\* float(k) for an integer k
FromInt(k) == FSigned(k < 0, FRound(Abs(k), 1, 0))

\* a * b
FMul(a, b) ==
    FSigned((a[1] < 0) # (b[1] < 0), FRound(Abs(a[1]) * Abs(b[1]), 1, a[2] + b[2]))

\* a / b, b # 0
FDiv(a, b) ==
    FSigned((a[1] < 0) # (b[1] < 0), FRound(Abs(a[1]), Abs(b[1]), a[2] - b[2]))

\* a + b; an operand more than MantissaBits + 1 binary places below the other
\* is less than half a unit in its last place and is absorbed
FAdd(a, b) ==
    IF a[1] = 0 THEN b
    ELSE IF b[1] = 0 THEN a
    ELSE IF a[2] - b[2] > MantissaBits + 1 THEN a
    ELSE IF b[2] - a[2] > MantissaBits + 1 THEN b
    ELSE LET e == IF a[2] < b[2] THEN a[2] ELSE b[2]
             s == a[1] * 2^(a[2] - e) + b[1] * 2^(b[2] - e)
         IN  FSigned(s < 0, FRound(Abs(s), 1, e))

FSub(a, b) == FAdd(a, FNeg(b))

\* a > 0
FPositive(a) == a[1] > 0

\* a < b: rounding keeps the sign of the exact difference
FLess(a, b) == FSub(a, b)[1] < 0

\* max(a, b) as Python evaluates it: b only when b > a
FMax(a, b) == IF FLess(a, b) THEN b ELSE a

\* min(a, b) as Python evaluates it: b only when b < a
FMin(a, b) == IF FLess(b, a) THEN b ELSE a

RECURSIVE FPow(_, _)
\* a ** n for an integer n >= 0, as a chain of rounded products
FPow(a, n) == IF n = 0 THEN FromInt(1) ELSE FMul(FPow(a, n - 1), a)


(***************************************************************************)
(* ft3.py: the session data model                                          *)
(***************************************************************************)
Line(label, value) == [label |-> label, value |-> value]

DefaultInvestment ==
    [brand_registration |-> 170000, sarl_formation |-> 400000,
     web_dev |-> 8000000, cash_contribution |-> 5051131, in_kind |-> 2000000]

DefaultFrais ==
    << [nom |-> "Enregistrement de marque", valeur |-> 170000],
       [nom |-> "Frais de constitution", valeur |-> 400000] >>

DefaultActif ==
    [immobilisations_non_valeur |->
        << Line("Frais preliminaires", 570000), Line("Charges a repartir", 0),
           Line("Primes de remboursement", 0) >>,
     immobilisations_incorporelles |->
        << Line("Recherche & developpement", 0), Line("Brevets, marques", 0),
           Line("Fonds commercial", 8000000) >>,
     immobilisations_corporelles |->
        << Line("Terrains", 350000), Line("Constructions", 9408000),
           Line("Installations techniques", 1440000), Line("Materiel de transport", 0),
           Line("Mobilier, bureau", 0), Line("Autres immobilisations", 0) >>,
     stocks |-> << Line("Marchandises", 0), Line("Matieres premieres", 0) >>,
     tresorerie_actif |->
        << Line("Banque, cheques postaux", 0), Line("Caisse, avances", 0) >>]

DefaultPassif ==
    [capitaux_propres |->
        << Line("Capital social", 7051131), Line("Capitaux propres assimiles", 0),
           Line("Subvention d'investissement", 0) >>,
     dettes_financement |->
        << Line("Emprunts obligataires", 0), Line("Autres dettes de financement", 0) >>,
     passif_circulant |->
        << Line("Fournisseurs et comptes rattaches", 0), Line("Ecart de conversion", 0),
           Line("Autres provisions", 0) >>,
     tresorerie_passif |-> << Line("Banque (solde crediteur)", 0) >>]

\* The keys whose content no modelled page reads are kept as one token.
\* a datetime.datetime, a datetime.date or the text of one ("str")
DateValue(type, day, time) == [type |-> type, day |-> day, time |-> time]

DefaultSession ==
    [basic_info |-> [company_name |-> "CLICLINC",
                     creation_date |-> DateValue("datetime", "2024-06-01", "00:00:00")],
     investment_data |-> DefaultInvestment,
     immos |-> <<>>,
     credits |-> <<>>,
     subsidies |-> <<>>,
     frais_preliminaires |-> DefaultFrais,
     income_statement_params |-> "default",
     cash_flow_params |-> "default",
     actif_data |-> DefaultActif,
     passif_data |-> DefaultPassif,
     monthly_cashflow_data |-> "default",
     vat_budget_data |-> "default",
     detailed_amortization |-> "default",
     calculated_data |-> EmptyDict,
     income_statement |-> "default"]

SessionKeys == DOMAIN DefaultSession

\* A mutant of init_session_state: every key is assigned unconditionally.
InitSessionStateOverwrite(s) ==
    [k \in DOMAIN s \cup SessionKeys |->
        IF k \in SessionKeys THEN DefaultSession[k] ELSE s[k]]

\* init_session_state: "if key not in st.session_state: st.session_state.key = default"
InitSessionState(s) ==
    [k \in DOMAIN s \cup SessionKeys |->
        IF k \in DOMAIN s THEN s[k] ELSE DefaultSession[k]]

(***************************************************************************)
(* ft3.py: widgets.  A script run is triggered by one user interaction ev. *)
(***************************************************************************)
Ev(kind, field, index, value, name) ==
    [kind |-> kind, field |-> field, index |-> index, value |-> value, name |-> name]

\* st.number_input(value=current): the edited value when this widget is the one
\* the user changed, the value it was given otherwise.
NumberInput(current, ev, widget) ==
    IF ev.kind = "number" /\ ev.field = widget THEN ev.value ELSE current

\* st.text_input(value=current)
TextInput(current, ev, widget) ==
    IF ev.kind = "text" /\ ev.field = widget THEN ev.name ELSE current

\* st.data_editor(df, num_rows="dynamic", key=widget) followed by
\* to_dict('records'): one cell of column col edited, or one row deleted.
DataEditor(rows, ev, widget, col) ==
    IF ev.field = widget /\ ev.index \in 1..Len(rows)
    THEN IF ev.kind = "edit_cell"
         THEN [rows EXCEPT ![ev.index] = [@ EXCEPT ![col] = ev.value]]
         ELSE IF ev.kind = "delete_row" THEN RemoveAt(rows, ev.index) ELSE rows
    ELSE rows

(***************************************************************************)
(* ft3.py: pages.  Each operator maps the session before the page is       *)
(* rendered to the session after it, for the interaction ev.               *)
(***************************************************************************)
\* st.date_input(label, value): returns a datetime.date.  A text value is
\* parsed by the Streamlit versions that accept ISO strings (ev.parses) and
\* makes the others raise, which ends the script run.
DateInput(current, ev) ==
    IF current.type = "str" /\ ~ev.parses
    THEN current
    ELSE DateValue("date", current.day, "")

\* show_company_info: every input is written back to basic_info
ShowCompanyInfo(s, ev) ==
    [s EXCEPT !.basic_info.company_name = TextInput(@, ev, "company_name"),
              !.basic_info.creation_date = DateInput(@, ev)]

\* "Ajouter" buttons of show_investments: a row is appended when the name is
\* not empty and the amount is positive
AddRow(rows, ev, button, row) ==
    IF ev.kind = "add" /\ ev.field = button /\ ev.name # "" /\ ev.value > 0
    THEN Append(rows, row)
    ELSE rows

\* show_investments
ShowInvestments(s, ev) ==
    LET inv0   == s.investment_data
        brand  == NumberInput(inv0.brand_registration, ev, "brand_registration")
        sarl   == NumberInput(inv0.sarl_formation, ev, "sarl_formation")
        fr0    == s.frais_preliminaires
        fr1    == IF Len(fr0) >= 1 THEN [fr0 EXCEPT ![1].valeur = brand] ELSE fr0
        fr2    == IF Len(fr1) >= 2 THEN [fr1 EXCEPT ![2].valeur = sarl] ELSE fr1
        im0    == AddRow(s.immos, ev, "add_immo",
                         [Nom |-> ev.name, Montant |-> ev.value])
        im1    == IF im0 # <<>> THEN DataEditor(im0, ev, "immos_editor", "Montant") ELSE im0
        total_immos == IF im0 # <<>> THEN SumField(im1, "Montant") ELSE 0
        web    == NumberInput(inv0.web_dev, ev, "web_dev")
        cash   == NumberInput(inv0.cash_contribution, ev, "cash_contribution")
        kind   == NumberInput(inv0.in_kind, ev, "in_kind")
        cr0    == AddRow(s.credits, ev, "add_credit",
                         [Nom |-> ev.name, Montant |-> ev.value,
                          Taux |-> <<5, 100>>, Duree |-> 5])
        cr1    == IF cr0 # <<>> THEN DataEditor(cr0, ev, "credits_editor", "Montant") ELSE cr0
        total_credits == IF cr0 # <<>> THEN SumField(cr1, "Montant") ELSE 0
        su0    == AddRow(s.subsidies, ev, "add_subsidy",
                         [Nom |-> ev.name, Montant |-> ev.value])
        su1    == IF su0 # <<>> THEN DataEditor(su0, ev, "subsidies_editor", "Montant") ELSE su0
        total_subsidies == IF su0 # <<>> THEN SumField(su1, "Montant") ELSE 0
        total_frais == brand + sarl
        c1 == DictSet(s.calculated_data, "total_immos", total_immos)
        c2 == DictSet(c1, "total_credits", total_credits)
        c3 == DictSet(c2, "total_subsidies", total_subsidies)
        c4 == DictSet(c3, "total_frais", total_frais)
        c5 == DictSet(c4, "total_investissement", total_frais + total_immos + web)
        c6 == DictSet(c5, "total_financement",
                      cash + kind + total_credits + total_subsidies)
    IN  [s EXCEPT
            !.investment_data = [brand_registration |-> brand, sarl_formation |-> sarl,
                                 web_dev |-> web, cash_contribution |-> cash,
                                 in_kind |-> kind],
            !.frais_preliminaires = fr2,
            !.immos = im1, !.credits = cr1, !.subsidies = su1,
            !.calculated_data = c6]

ActifSections ==
    <<"immobilisations_non_valeur", "immobilisations_incorporelles",
      "immobilisations_corporelles", "stocks", "tresorerie_actif">>

PassifSections ==
    <<"capitaux_propres", "dettes_financement", "passif_circulant", "tresorerie_passif">>

\* keys of the data editors of the balance sheet, one per section
EditorKeys ==
    [actif |->
        [immobilisations_non_valeur |-> "editor_actif_immobilisations_non_valeur",
         immobilisations_incorporelles |-> "editor_actif_immobilisations_incorporelles",
         immobilisations_corporelles |-> "editor_actif_immobilisations_corporelles",
         stocks |-> "editor_actif_stocks",
         tresorerie_actif |-> "editor_actif_tresorerie_actif"],
     passif |->
        [capitaux_propres |-> "editor_passif_capitaux",
         dettes_financement |-> "editor_passif_dettes",
         passif_circulant |-> "editor_passif_circulant",
         tresorerie_passif |-> "editor_passif_tresorerie"]]

EditorKey(category, section) == EditorKeys[category][section]

\* show_balance_sheet, first block: lines refreshed from the other pages
SyncBilan(s) ==
    LET calc == s.calculated_data
        inv  == s.investment_data
        a0   == s.actif_data
        a1   == IF Len(a0.immobilisations_non_valeur) > 0
                THEN [a0 EXCEPT !.immobilisations_non_valeur[1].value =
                                    DictGet(calc, "total_frais", 570000)]
                ELSE a0
        a2   == IF Len(a1.immobilisations_incorporelles) > 2
                THEN [a1 EXCEPT !.immobilisations_incorporelles[3].value = inv.web_dev]
                ELSE a1
        total_apports == inv.cash_contribution + inv.in_kind
        p0   == s.passif_data
        p1   == IF Len(p0.capitaux_propres) > 0
                THEN [p0 EXCEPT !.capitaux_propres[1].value = total_apports]
                ELSE p0
        p2   == IF Len(p1.capitaux_propres) > 2
                THEN [p1 EXCEPT !.capitaux_propres[3].value =
                                    DictGet(calc, "total_subsidies", 0)]
                ELSE p1
        p3   == IF Len(p2.dettes_financement) > 0
                THEN [p2 EXCEPT !.dettes_financement[1].value =
                                    DictGet(calc, "total_credits", 0)]
                ELSE p2
    IN  IF "calculated_data" \in DOMAIN s
        THEN [s EXCEPT !.actif_data = a2, !.passif_data = p3]
        ELSE s

\* the data editors of show_balance_sheet, one per section
EditSections(data, ev, category) ==
    [sec \in DOMAIN data |->
        DataEditor(data[sec], ev, EditorKey(category, sec), "value")]

RECURSIVE SumSections(_, _)
SumSections(data, names) ==
    IF names = <<>> THEN 0
    ELSE SumField(data[Head(names)], "value") + SumSections(data, Tail(names))

\* "for section in st.session_state.actif_data": every section of the dict
RECURSIVE SumAllSections(_, _)
SumAllSections(data, keys) ==
    IF keys = {} THEN 0
    ELSE LET k == CHOOSE x \in keys : TRUE
         IN  SumField(data[k], "value") + SumAllSections(data, keys \ {k})

\* A mutant of the balance test: the tolerance is excluded.
BilanDesequilibreStrict(total_actif, total_passif) ==
    Abs(total_actif - total_passif) >= 1

\* "if abs(total_actif - total_passif) > 0.01": st.error, else st.success
BilanDesequilibre(total_actif, total_passif) ==
    Abs(total_actif - total_passif) > 1

TotalActif(s) == SumAllSections(s.actif_data, DOMAIN s.actif_data)

TotalPassif(s) == SumSections(s.passif_data, PassifSections)

\* show_balance_sheet: the session it leaves
ShowBalanceSheet(s, ev) ==
    LET s1 == SyncBilan(s)
        s2 == [s1 EXCEPT !.actif_data = EditSections(@, ev, "actif"),
                         !.passif_data = EditSections(@, ev, "passif")]
        c1 == DictSet(s2.calculated_data, "total_actif", TotalActif(s2))
        c2 == DictSet(c1, "total_passif", TotalPassif(s2))
    IN  [s2 EXCEPT !.calculated_data = c2]

\* show_balance_sheet: the message it ends with
BilanMessage(s) ==
    IF BilanDesequilibre(s.calculated_data["total_actif"], s.calculated_data["total_passif"])
    THEN "desequilibre"
    ELSE "equilibre"

\* show_cash_flow, as far as the modelled keys go
ShowCashFlow(s, ev) ==
    LET fr == DataEditor(s.frais_preliminaires, ev, "editor_frais_prelim", "valeur")
        total_frais == SumField(fr, "valeur")
        c1 == IF total_frais > 0
              THEN DictSet(s.calculated_data, "total_frais", total_frais)
              ELSE s.calculated_data
        web == NumberInput(s.investment_data.web_dev, ev, "systeme_info")
    IN  [s EXCEPT !.frais_preliminaires = fr, !.calculated_data = c1,
                  !.investment_data.web_dev = web]

(***************************************************************************)
(* ft3.py: CSV import, JSON save and load                                  *)
(***************************************************************************)
CsvRow(type, categorie, nom, montant) ==
    [type |-> type, categorie |-> categorie, nom |-> nom, montant |-> montant]

\* processed tables a user can import (after process_with_ai)
CsvSamples ==
    << << CsvRow("immobilisation", "equipement", "Materiel", 7840000),
          CsvRow("financement", "emprunt", "Credit bancaire", 15000000) >>,
       << CsvRow("financement", "apport", "Apport personnel", 5000000),
          CsvRow("financement", "subvention", "Subvention", 3000000) >>,
       << CsvRow("charges", "loyer", "Loyer mensuel", 350000) >> >>

RowsOfType(rows, type) == LET Keep(r) == r.type = type IN SelectSeq(rows, Keep)

RowsOfCategory(rows, categorie) ==
    LET Keep(r) == r.categorie = categorie IN SelectSeq(rows, Keep)

\* show_csv_import, button "Appliquer ces donnees a mon projet" with
\* "Appliquer toutes les donnees" checked (its default)
ApplyCsv(s, rows) ==
    LET immos    == RowsOfType(rows, "immobilisation")
        finances == RowsOfType(rows, "financement")
        apports     == SumField(RowsOfCategory(finances, "apport"), "montant")
        emprunts    == SumField(RowsOfCategory(finances, "emprunt"), "montant")
        subventions == SumField(RowsOfCategory(finances, "subvention"), "montant")
        s1 == IF immos # <<>>
              THEN [s EXCEPT !.immos =
                       [i \in 1..Len(immos) |->
                           [Nom |-> immos[i].nom, Montant |-> immos[i].montant]]]
              ELSE s
        c1 == IF emprunts > 0
              THEN DictSet(s1.calculated_data, "total_credits", emprunts)
              ELSE s1.calculated_data
        c2 == IF subventions > 0 THEN DictSet(c1, "total_subsidies", subventions) ELSE c1
    IN  IF finances # <<>>
        THEN [s1 EXCEPT
                !.investment_data.cash_contribution = IF apports > 0 THEN apports ELSE @,
                !.calculated_data = c2]
        ELSE s1

ExportedKeys ==
    {"basic_info", "investment_data", "immos", "credits", "subsidies",
     "frais_preliminaires", "income_statement_params", "cash_flow_params",
     "actif_data", "passif_data", "monthly_cashflow_data", "vat_budget_data",
     "detailed_amortization"}

\* a JSON document: valid = json.loads succeeds, data = the parsed object,
\* keys = its top-level keys in the order of the file
JsonDoc(valid, keys, data) == [valid |-> valid, keys |-> keys, data |-> data]

\* documents a user can upload
JsonDocs ==
    << JsonDoc(TRUE, <<"immos", "metadata">>,
               [immos |-> << [Nom |-> "Camion", Montant |-> 30000000] >>,
                metadata |-> "1.0"]),
       JsonDoc(TRUE, <<"investment_data", "metadata">>,
               [investment_data |-> [DefaultInvestment EXCEPT !.web_dev = -100],
                metadata |-> "1.0"]),
       JsonDoc(FALSE, <<>>, EmptyDict),
       JsonDoc(TRUE, <<"credits", "save_data_btn", "subsidies">>,
               [credits |-> <<>>, save_data_btn |-> "true", subsidies |-> <<>>]) >>

\* the keys of the widgets main has created when it reaches the uploader;
\* st.session_state[key] = value raises StreamlitAPIException for them
WidgetKeys ==
    {"quick_import", "reset_all", "save_data_btn", "download_json_btn", "json_uploader"}

\* get_session_data_as_json: the keys in the order they are exported
ExportOrder ==
    <<"basic_info", "investment_data", "immos", "credits", "subsidies",
      "frais_preliminaires", "income_statement_params", "cash_flow_params",
      "actif_data", "passif_data", "monthly_cashflow_data", "vat_budget_data",
      "detailed_amortization">>

\* strftime("%Y-%m-%d %H:%M:%S") of a datetime, str() of a date
SerializedDate(v) ==
    IF v.type = "datetime" THEN DateValue("str", v.day, v.time)
    ELSE IF v.type = "date" THEN DateValue("str", v.day, "")
    ELSE v

\* convert_to_serializable on the value of session key k: dicts, lists,
\* numbers and texts are kept, a date becomes a text
convert_to_serializable(k, v) ==
    IF k = "basic_info"
    THEN [f \in DOMAIN v |-> IF f = "creation_date" THEN SerializedDate(v[f]) ELSE v[f]]
    ELSE v

\* get_session_data_as_json followed by json.loads of the text
get_session_data_as_json(s) ==
    LET exported == ExportedKeys \cap DOMAIN s
    IN  [k \in exported \cup {"metadata"} |->
            IF k = "metadata" THEN "1.0" ELSE convert_to_serializable(k, s[k])]

\* no file
NoDownload == [doc |-> JsonDoc(FALSE, <<>>, EmptyDict), from |-> EmptyDict]

\* main, 'data_json = get_session_data_as_json()': the document of session
\* s, with the session it was made from
PreparedDownload(s) ==
    LET in_session(k) == k \in DOMAIN s
    IN  [doc |-> JsonDoc(TRUE, SelectSeq(ExportOrder, in_session) \o <<"metadata">>,
                         get_session_data_as_json(s)),
         from |-> s]

\* the file behind choice up of the uploader; the last choice is the saved
\* download
SavedIndex == Len(JsonDocs) + 1

UploadedDoc(up, file) == IF up = SavedIndex THEN file.doc ELSE JsonDocs[up]

RECURSIVE AssignKeys(_, _, _)
\* 'for key, value in data.items(): if key != "metadata": ...' over the keys
\* still to come; the assignment to a widget key raises and ends the loop
AssignKeys(s, data, keys) ==
    IF keys = <<>> THEN s
    ELSE IF Head(keys) = "metadata" THEN AssignKeys(s, data, Tail(keys))
    ELSE IF Head(keys) \in WidgetKeys THEN s
    ELSE AssignKeys(DictSet(s, Head(keys), data[Head(keys)]), data, Tail(keys))

\* load_data_from_json; an invalid document raises before any assignment
LoadDataFromJson(s, doc) ==
    IF ~doc.valid
    THEN s
    ELSE AssignKeys(s, doc.data, doc.keys)

\* A mutant of the save button: the data is saved on every script run.
SaveClickedAlways(ev) == TRUE

\* main, 'if st.button("Sauvegarder", key="save_data_btn"): save_data()'
SaveClicked(ev) == ev.kind = "save_click"

\* the pages of the sidebar selectbox "Navigation"; the pages of the last
\* group leave every modelled key alone
Pages ==
    {"Fiche Entreprise", "Investissements", "Bilan", "Cash Flow", "Importation CSV",
     "Compte de Resultat", "Amortissements", "Amortissement Detaille",
     "Tableau de Tresorerie Mensuel", "Budget TVA"}

\* main, the dispatch on choice
ShowPage(page, s, ev) ==
    CASE page = "Fiche Entreprise" -> ShowCompanyInfo(s, ev)
      [] page = "Investissements"  -> ShowInvestments(s, ev)
      [] page = "Bilan"            -> ShowBalanceSheet(s, ev)
      [] page = "Cash Flow"        -> ShowCashFlow(s, ev)
      [] page = "Importation CSV"  ->
            IF ev.kind = "apply_csv" THEN ApplyCsv(s, CsvSamples[ev.index]) ELSE s
      [] OTHER -> s

\* main: the session when the sidebar is drawn, after init_session_state and
\* the reset button
SidebarSession(s, ev) ==
    IF ev.kind = "reset" THEN InitSessionState(EmptyDict) ELSE InitSessionState(s)

\* main: one run of the script for the interaction ev.  The reset button
\* deletes every key, initialises and reruns; the uploader holds its file
\* across runs, so the file is loaded again on every run.
MainSession(s, page, up, ev, file) ==
    LET s1 == SidebarSession(s, ev)
        s2 == IF up # 0 THEN LoadDataFromJson(s1, UploadedDoc(up, file)) ELSE s1
    IN  ShowPage(page, s2, ev)

(***************************************************************************)
(* p4.py / proto2.py: the report builder.  The script reloads saved_data   *)
(* from the save file at the start of every run.                           *)
(***************************************************************************)
NoFile == [exists |-> FALSE, data |-> EmptyDict]

\* load_data
LoadData(file) == IF file.exists THEN file.data ELSE EmptyDict

\* state of one script run: saved_data, the save file, whether it was written
P4State(data, file, written) == [data |-> data, file |-> file, wrote |-> written]

\* save_data(saved_data)
SaveData(st) == [st EXCEPT !.file = [exists |-> TRUE, data |-> st.data], !.wrote = TRUE]

\* create_input: the value is saved as soon as it differs from saved_data.get(key)
CreateInput(st, default, key, ev) ==
    LET saved_value == DictGet(st.data, key, default)
        user_input  == IF ev.kind = "text" /\ ev.field = key THEN ev.name ELSE saved_value
    IN  IF key \notin DOMAIN st.data \/ st.data[key] # user_input
        THEN SaveData([st EXCEPT !.data = DictSet(@, key, user_input)])
        ELSE st

\* create_editable_table: saved when the edited table differs from the one shown
CreateEditableTable(st, default, key, ev) ==
    LET saved_table == DictGet(st.data, key, default)
        edited      == IF ev.kind = "edit_table" /\ ev.field = key THEN ev.name ELSE saved_table
    IN  IF edited # saved_table
        THEN SaveData([st EXCEPT !.data = DictSet(@, key, edited)])
        ELSE st

\* p4.py create_competitor_comparison_table: the column title is saved on
\* every run; proto2.py has no column title
CompetitorTable(st, script, ev) ==
    IF script = "p4"
    THEN LET st1 == CreateInput(st, "Criteres/Concurrents", "criteres_column_name", ev)
             st2 == CreateEditableTable(st1, "defaut", "competitors_comparison_table", ev)
         IN  SaveData([st2 EXCEPT !.data =
                          DictSet(@, "criteres_column_name", st1.data["criteres_column_name"])])
    ELSE CreateEditableTable(st, "defaut", "competitors_comparison_table", ev)

P4Pages ==
    {"Presentation du Projet", "Analyse de Marche", "Strategie Commerciale",
     "Plan Financier", "Details Techniques"}

\* the page blocks of the script (the first inputs and tables of each page)
P4Render(st, script, page, ev) ==
    CASE page = "Presentation du Projet" ->
            CreateInput(CreateInput(st, "Glove Voice", "projet_titre", ev),
                        "La difficulte de communiquer", "pres_prob", ev)
      [] page = "Analyse de Marche" ->
            CompetitorTable(
                CreateEditableTable(CreateInput(st, "Analyse de Marche", "marche_titre", ev),
                                    "defaut", "marche_cibles_table", ev),
                script, ev)
      [] page = "Strategie Commerciale" ->
            CreateEditableTable(
                CreateInput(st, "Strategie Commerciale", "strategie_titre", ev),
                "defaut", "projections_table", ev)
      [] page = "Plan Financier" ->
            CreateEditableTable(CreateInput(st, "Plan Financier", "financier_titre", ev),
                                "defaut", "financement_table", ev)
      [] OTHER ->
            CreateInput(st, "Details Techniques", "technique_titre", ev)

\* one run of the script; the reset button, tested last, removes the save
\* file and reruns the script
P4Main(file, script, page, ev) ==
    LET run1 == P4Render(P4State(LoadData(file), file, FALSE), script, page, ev)
        none == Ev("rerun", "", 0, 0, "")
    IN  IF ev.kind = "reset"
        THEN P4Render(P4State(EmptyDict, NoFile, run1.wrote), script, page, none)
        ELSE run1

(***************************************************************************)
(* ft3.py: the credit amortization schedule (show_amortization) and the    *)
(* credit table of the PDF report.  Amounts are floats, in DHS.            *)
(***************************************************************************)
periods_per_year == [Mensuelle |-> 12, Trimestrielle |-> 4, Semestrielle |-> 2, Annuelle |-> 1]

Frequencies == DOMAIN periods_per_year

\* the credits of st.session_state.credits the schedule is built for;
\* "Taux" holds the fraction pct / 100 stored by show_investments
CreditSamples ==
    { [Nom |-> "Credit bancaire", Montant |-> FromInt(amount),
       Taux |-> FDiv(FromInt(pct), FromInt(100)), Duree |-> years] :
        amount \in {1000, 100000}, pct \in {0, 5, 12}, years \in {0, 1, 2} }

\* st.number_input("Periode de grace (mois)", min_value=0, max_value=24)
GraceSamples == {0, 1, 24}

NoCredit == [Nom |-> "", Montant |-> FZero, Taux |-> FZero, Duree |-> 0]

\* 'if principal > 0 and rate > 0 and term > 0:'
HasSchedule(c) == FPositive(c.Montant) /\ FPositive(c.Taux) /\ c.Duree > 0

\* (1 + periodic_rate) ** periods
Growth(periodic_rate, periods) == FPow(FAdd(FromInt(1), periodic_rate), periods)

\* principal * (periodic_rate * (1 + periodic_rate)**periods)
\*           / ((1 + periodic_rate)**periods - 1)
Payment(principal, periodic_rate, periods) ==
    FDiv(FMul(principal, FMul(periodic_rate, Growth(periodic_rate, periods))),
         FSub(Growth(periodic_rate, periods), FromInt(1)))

\* the division of the payment formula raises ZeroDivisionError
PaymentRaises(periodic_rate, periods) ==
    FSub(Growth(periodic_rate, periods), FromInt(1)) = FZero

\* show_amortization: periodic_rate = rate / periods_per_year[frequency]
PagePeriodicRate(c, f) == FDiv(c.Taux, FromInt(periods_per_year[f]))

\* A mutant of the number of periods: one repayment row per year.
PagePeriodsYearly(c, f) == c.Duree

\* show_amortization: periods = term * periods_per_year[frequency]
PagePeriods(c, f) == c.Duree * periods_per_year[f]

\* generate_pdf_report: periodic_rate = rate / 100
PdfPeriodicRate(c) == FDiv(c.Taux, FromInt(100))

\* generate_pdf_report: 'for year in range(1, min(term + 1, 6))'
PdfRows(c) == IF c.Duree < 5 THEN c.Duree ELSE 5

\* A mutant of the Solde column: the balance is shown as computed.
SoldeUnclamped(b) == b

\* the Solde column of a repayment row: max(0.0, balance)
SoldeShown(b) == FMax(FZero, b)

Row(period, paiement, capital, interets, solde) ==
    [Periode |-> period, Paiement |-> paiement, Capital |-> capital,
     Interets |-> interets, Solde |-> solde]

\* no schedule is being computed
AmortIdle ==
    /\ credit = NoCredit
    /\ frequency = "Mensuelle"
    /\ grace_period = 0
    /\ view = "none"
    /\ phase = "input"
    /\ payment = FZero
    /\ balance = FZero
    /\ schedule = <<>>

\* show_amortization up to the first loop, for credit c and the widget values
ShowAmortization ==
    /\ phase = "input"
    /\ \E c \in CreditSamples, f \in Frequencies, g \in GraceSamples :
          /\ credit' = c
          /\ frequency' = f
          /\ grace_period' = g
          /\ view' = "page"
          /\ schedule' = <<>>
          /\ IF ~HasSchedule(c)
             THEN phase' = "none" /\ payment' = FZero /\ balance' = FZero
             ELSE IF PaymentRaises(PagePeriodicRate(c, f), PagePeriods(c, f))
             THEN phase' = "error" /\ payment' = FZero /\ balance' = FZero
             ELSE /\ phase' = IF g > 0 THEN "grace" ELSE "repay"
                  /\ payment' = Payment(c.Montant, PagePeriodicRate(c, f), PagePeriods(c, f))
                  /\ balance' = c.Montant
    /\ UNCHANGED notAmortVars

\* one iteration of 'for month in range(1, grace_period + 1)'
GraceRow ==
    /\ phase = "grace"
    /\ LET interest == FMul(balance, FDiv(credit.Taux, FromInt(12)))
       IN  schedule' = Append(schedule,
                              Row(Len(schedule) + 1, interest, FZero, interest, balance))
    /\ phase' = IF Len(schedule) + 1 = grace_period THEN "repay" ELSE "grace"
    /\ UNCHANGED <<credit, frequency, grace_period, view, payment, balance, notAmortVars>>

\* one iteration of 'for period in range(periods)'
RepaymentRow ==
    /\ phase = "repay"
    /\ LET interest == FMul(balance, PagePeriodicRate(credit, frequency))
           principal_payment == FSub(payment, interest)
       IN  /\ balance' = FSub(balance, principal_payment)
           /\ schedule' = Append(schedule,
                                 Row(Len(schedule) + 1, payment, principal_payment,
                                     interest, SoldeShown(balance')))
    /\ phase' = IF Len(schedule) + 1 = grace_period + PagePeriods(credit, frequency)
                THEN "done" ELSE "repay"
    /\ UNCHANGED <<credit, frequency, grace_period, view, payment, notAmortVars>>

\* generate_pdf_report, section "Amortissements", for one credit c
PdfCreditTable ==
    /\ phase = "input"
    /\ \E c \in CreditSamples :
          /\ credit' = c
          /\ view' = "pdf"
          /\ schedule' = <<>>
          /\ IF ~HasSchedule(c)
             THEN phase' = "none" /\ payment' = FZero /\ balance' = FZero
             ELSE IF PaymentRaises(PdfPeriodicRate(c), c.Duree)
             THEN phase' = "error" /\ payment' = FZero /\ balance' = FZero
             ELSE /\ phase' = "pdf_rows"
                  /\ payment' = Payment(c.Montant, PdfPeriodicRate(c), c.Duree)
                  /\ balance' = c.Montant
    /\ UNCHANGED <<frequency, grace_period, notAmortVars>>

\* one iteration of 'for year in range(1, min(term + 1, 6))'
PdfRow ==
    /\ phase = "pdf_rows"
    /\ LET interest == FMul(balance, PdfPeriodicRate(credit))
           principal_payment == FSub(payment, interest)
       IN  /\ balance' = FSub(balance, principal_payment)
           /\ schedule' = Append(schedule,
                                 Row(Len(schedule) + 1, payment, principal_payment,
                                     interest, SoldeShown(balance')))
    /\ phase' = IF Len(schedule) + 1 = PdfRows(credit) THEN "done" ELSE "pdf_rows"
    /\ UNCHANGED <<credit, frequency, grace_period, view, payment, notAmortVars>>


(***************************************************************************)
(* ft3.py: generate_pdf_report.  A text is a sequence of code points.      *)
(***************************************************************************)
\* the code points of "OK", "ATTENTION" and "ERREUR"
AsciiOk        == <<79, 75>>
AsciiAttention == <<65, 84, 84, 69, 78, 84, 73, 79, 78>>
AsciiErreur    == <<69, 82, 82, 69, 85, 82>>

RECURSIVE ascii_only(_)
\* replaces the check mark, the warning sign and the cross mark, nothing else
ascii_only(text) ==
    IF text = <<>> THEN <<>>
    ELSE LET c == Head(text)
             r == IF c = 10003 THEN AsciiOk
                  ELSE IF c = 9888 THEN AsciiAttention
                  ELSE IF c = 10060 THEN AsciiErreur
                  ELSE <<c>>
         IN  r \o ascii_only(Tail(text))

\* text.encode('latin-1') succeeds
Latin1Encodable(text) == \A i \in 1..Len(text) : text[i] <= 255

\* f"{temp_dir}/{report_name.lower().replace(' ', '_')}.pdf" names a file of
\* temp_dir: the name holds no "/"
OutputPathValid(name) == \A i \in 1..Len(name) : name[i] # 47

\* the options of the multiselect "Sections a inclure"
SectionOptions ==
    {"Informations generales", "Investissements", "Bilan previsionnel",
     "Compte de resultat", "Tresorerie", "Analyse TVA", "Amortissements"}

\* the names tested by the 'if "..." in sections' blocks of the body, in order
SectionBlocks ==
    <<"Informations generales", "Importation CSV", "Investissements",
      "Bilan previsionnel", "Compte de resultat", "Cash Flow", "Amortissements",
      "Amortissement Detaille", "Tableau de Tresorerie Mensuel", "Budget TVA">>

\* selections of the multiselect: its default, everything, nothing, one section
SectionSamples ==
    { {"Informations generales", "Investissements", "Bilan previsionnel",
       "Compte de resultat", "Tresorerie"},
      SectionOptions,
      {},
      {"Amortissements"} }

\* report names typed into "Nom du rapport":
\* "Etude" with E acute, "Bilan" followed by a check mark, "A/B", and a name
\* in Arabic letters
ReportNameSamples ==
    { <<201, 116, 117, 100, 101>>,
      <<66, 105, 108, 97, 110, 32, 10003>>,
      <<65, 47, 66>>,
      <<1588, 1585, 1603, 1577>> }

\* FPDF 1.7 encodes the page text when the file is written, fpdf2 when a
\* cell is drawn
FpdfLibraries == {"pyfpdf", "fpdf2"}

\* PDF.header: self.cell(0, 10, ascii_only(report_name), 0, 1, "C") raises
HeaderRaises(lib, name) == lib = "fpdf2" /\ ~Latin1Encodable(ascii_only(name))

\* output(file) raises: the page text cannot be encoded, or the file cannot be
\* opened
OutputRaises(lib, name, path_valid) ==
    \/ lib = "pyfpdf" /\ ~Latin1Encodable(ascii_only(name))
    \/ ~path_valid

\* no call of generate_pdf_report is running
PdfIdle ==
    /\ pdfStage = "idle"
    /\ report_name = <<>>
    /\ sections = {}
    /\ pdfAt = 0
    /\ pdfFailed = FALSE
    /\ pdfResult = "none"

\* the report generation is not part of the run
PdfParked == PdfIdle /\ fpdf = "none"

\* main: the button "Generer le PDF" calls generate_pdf_report
GeneratePdfReport ==
    /\ pdfStage = "idle"
    /\ \E name \in ReportNameSamples, secs \in SectionSamples :
          /\ report_name' = name
          /\ sections' = secs
    /\ pdfStage' = "add_page"
    /\ pdfAt' = 1
    /\ pdfFailed' = FALSE
    /\ pdfResult' = "none"
    /\ UNCHANGED <<fpdf, notPdfVars>>

\* 'pdf = PDF(); pdf.alias_nb_pages(); pdf.add_page()'
BodyAddPage ==
    /\ pdfStage = "add_page"
    /\ IF HeaderRaises(fpdf, report_name)
       THEN pdfStage' = "handler" /\ pdfFailed' = TRUE
       ELSE pdfStage' = "sections" /\ pdfFailed' = pdfFailed
    /\ UNCHANGED <<report_name, sections, fpdf, pdfAt, pdfResult, notPdfVars>>

\* the block for SectionBlocks[pdfAt] runs to its end, or is skipped
RenderSection ==
    /\ pdfStage = "sections"
    /\ pdfAt' = pdfAt + 1
    /\ pdfStage' = IF pdfAt = Len(SectionBlocks) THEN "output" ELSE "sections"
    /\ UNCHANGED <<report_name, sections, fpdf, pdfFailed, pdfResult, notPdfVars>>

\* a statement of the block of a selected section raises
SectionRaises ==
    /\ pdfStage = "sections"
    /\ SectionBlocks[pdfAt] \in sections
    /\ pdfStage' = "handler"
    /\ pdfFailed' = TRUE
    /\ UNCHANGED <<report_name, sections, fpdf, pdfAt, pdfResult, notPdfVars>>

\* 'pdf.output(output_file); return output_file'
BodyOutput ==
    /\ pdfStage = "output"
    /\ IF OutputRaises(fpdf, report_name, OutputPathValid(report_name))
       THEN pdfStage' = "handler" /\ pdfFailed' = TRUE /\ pdfResult' = pdfResult
       ELSE pdfStage' = "returned" /\ pdfFailed' = pdfFailed /\ pdfResult' = "report"
    /\ UNCHANGED <<report_name, sections, fpdf, pdfAt, notPdfVars>>

\* 'except Exception as e: ... error_pdf = PDF(); error_pdf.add_page()'
HandlerAddPage ==
    /\ pdfStage = "handler"
    /\ pdfStage' = IF HeaderRaises(fpdf, report_name) THEN "propagated" ELSE "handler_output"
    /\ UNCHANGED <<report_name, sections, fpdf, pdfAt, pdfFailed, pdfResult, notPdfVars>>

\* 'error_pdf.output(f"{temp_dir}/error_report.pdf"); return output_file'
HandlerOutput ==
    /\ pdfStage = "handler_output"
    /\ IF OutputRaises(fpdf, report_name, TRUE)
       THEN pdfStage' = "propagated" /\ pdfResult' = pdfResult
       ELSE pdfStage' = "returned" /\ pdfResult' = "error_report"
    /\ UNCHANGED <<report_name, sections, fpdf, pdfAt, pdfFailed, notPdfVars>>

\* main: the download button, or st.error in the caller's except block
CallerDone ==
    /\ pdfStage \in {"returned", "propagated"}
    /\ pdfStage' = "idle"
    /\ report_name' = <<>>
    /\ sections' = {}
    /\ pdfAt' = 0
    /\ pdfFailed' = FALSE
    /\ pdfResult' = "none"
    /\ UNCHANGED <<fpdf, notPdfVars>>

(***************************************************************************)
(* wifi_analyzer.py: the monitor thread, and the toggle of the dashboard   *)
(***************************************************************************)
Threads == 1..MaxThreads

\* len(self.history) > 100
HistoryLimit == 100

\* the intervals the callers pass: the dashboard slider (10..300, default 30)
\* and main (30)
IntervalSamples == {10, 30, 300}

(***************************************************************************)
(* wifi_analyzer.py: distances and positions.  rssi is in whole dBm, a     *)
(* frequency in tenths of GHz; distances and coordinates are floats.       *)
(***************************************************************************)
\* 10 ** (1 / 25) and 10 ** (1 / 30)
TenthRoot25 == FDiv(FromInt(1096478), FromInt(1000000))
TenthRoot30 == FDiv(FromInt(1079775), FromInt(1000000))

RECURSIVE PowBySquaring(_, _)
\* a to the power n >= 0 by repeated squaring
PowBySquaring(a, n) ==
    IF n = 0 THEN FromInt(1)
    ELSE LET half   == PowBySquaring(a, n \div 2)
             square == FMul(half, half)
         IN  IF n % 2 = 1 THEN FMul(square, a) ELSE square

\* math.pow(10, k / (10 * path_loss_exponent)) for a whole number k >= 0 of
\* dB, with path_loss_exponent 2.5 (tenfold = 25) or 3.0 (tenfold = 30)
PowTen(k, tenfold) == PowBySquaring(IF tenfold = 25 THEN TenthRoot25 ELSE TenthRoot30, k)

\* calculate_rssi_distance(rssi, frequency)
calculate_rssi_distance(rssi, freq) ==
    LET rssi_ref == -30
        tenfold  == IF freq = 24 THEN 25 ELSE 30
        distance == PowTen(rssi_ref - rssi, tenfold)
        scaled   == IF freq = 50
                    THEN FMul(distance, FDiv(FromInt(8), FromInt(10)))
                    ELSE distance
    IN  IF rssi = 0 THEN FromInt(-1)
        ELSE IF rssi >= rssi_ref THEN FromInt(1)
        ELSE FMin(scaled, FromInt(100))

\* rssi values and frequencies (2.4, 5.0 and 6.0 GHz) of a call
RssiSamples == -100..5
FrequencySamples == {24, 50, 60}

NoMeasure == [rssi |-> 0, frequency |-> 0, distance |-> FZero]

\* a device record of discover_devices_nmap (no 'distance' key), and one a
\* caller has given a distance
Device(mac, has_distance, distance) ==
    [mac |-> mac, has_distance |-> has_distance, distance |-> distance]

DeviceListSamples ==
    LET d1 == Device("00:11:22:33:44:55", FALSE, FZero)
        d2 == Device("66:77:88:99:AA:BB", TRUE, FromInt(37))
    IN  {<<>>, <<d1>>, <<d2>>, <<d1, d2>>}

\* the profiles of get_wifi_profiles: netsh profiles are reported at 2.4 GHz,
\* the fallback list holds (-45, 2.4) and (-60, 5.0)
ProfileSamples ==
    { [ssid |-> "Sample_Network_1", rssi |-> -45, frequency |-> 24],
      [ssid |-> "Sample_Network_2", rssi |-> -60, frequency |-> 50],
      [ssid |-> "Home", rssi |-> -84, frequency |-> 24] }

\* "profile['distance'] = distance"
WithDistance(profile) ==
    [ssid |-> profile.ssid, rssi |-> profile.rssi, frequency |-> profile.frequency,
     distance |-> calculate_rssi_distance(profile.rssi, profile.frequency)]

\* A mutant of the radii: the distance measured for the access point is used.
RadiusOfAccessPoint(device, ap, default) == ap.distance

\* "device.get('distance', default)", the radius around access point ap
Radius(device, ap, default) ==
    IF device.has_distance THEN device.distance ELSE FromInt(default)

\* _trilaterate(device, access_points)
trilaterate(device, access_points) ==
    IF Len(access_points) < 3 THEN <<FZero, FZero>>
    ELSE
    LET ap1 == access_points[1]
        ap2 == access_points[2]
        ap3 == access_points[3]
        p1  == <<FromInt(0), FromInt(0)>>
        p2  == <<FromInt(100), FromInt(0)>>
        p3  == <<FromInt(50), FDiv(FromInt(866), FromInt(10))>>
        r1  == Radius(device, ap1, 10)
        r2  == Radius(device, ap2, 15)
        r3  == Radius(device, ap3, 20)
        Sq(v) == FMul(v, v)
        Twice(v) == FMul(FromInt(2), v)
        A == Twice(FSub(p2[1], p1[1]))
        B == Twice(FSub(p2[2], p1[2]))
        C == FAdd(FSub(FAdd(FSub(FSub(Sq(r1), Sq(r2)), Sq(p1[1])), Sq(p2[1])), Sq(p1[2])),
                  Sq(p2[2]))
        D == Twice(FSub(p3[1], p2[1]))
        E == Twice(FSub(p3[2], p2[2]))
        F == FAdd(FSub(FAdd(FSub(FSub(Sq(r2), Sq(r3)), Sq(p2[1])), Sq(p3[1])), Sq(p2[2])),
                  Sq(p3[2]))
        xden == FSub(FMul(E, A), FMul(B, D))
        yden == FSub(FMul(A, E), FMul(B, D))
    IN  IF xden = FZero \/ yden = FZero
        THEN <<FromInt(25), FromInt(25)>>
        ELSE << FDiv(FSub(FMul(C, E), FMul(F, B)), xden),
                FDiv(FSub(FMul(A, F), FMul(D, C)), yden) >>

\* _approximate_position(device, access_points)
approximate_position(device, access_points) ==
    IF Len(access_points) < 2 THEN <<FromInt(25), FromInt(25)>>
    ELSE LET distance == IF device.has_distance THEN device.distance ELSE FromInt(10)
         IN  << FAdd(FromInt(25), FMul(distance, FDiv(FromInt(5), FromInt(10)))),
                FAdd(FromInt(25), FMul(distance, FDiv(FromInt(3), FromInt(10)))) >>

\* math.cos and math.sin of (2 * math.pi * i) / n for the device lists of
\* DeviceListSamples: angle 0, and angle pi where sin is 1.2246e-16
CosSin(i, n) ==
    IF i = 0 THEN <<FromInt(1), FZero>> ELSE <<FromInt(-1), <<2259, -64>> >>

\* calculate_device_positions: the entry of device number i (from 0)
DevicePosition(devices, i, access_points) ==
    LET device == devices[i + 1]
    IN  IF Len(access_points) < 2
        THEN LET distance == IF device.has_distance THEN device.distance ELSE FromInt(10)
                 turn == CosSin(i, Len(devices))
             IN  << FAdd(FromInt(50), FMul(distance, turn[1])),
                    FAdd(FromInt(50), FMul(distance, turn[2])) >>
        ELSE IF Len(access_points) >= 3
        THEN trilaterate(device, SubSeq(access_points, 1, 3))
        ELSE approximate_position(device, SubSeq(access_points, 1, 2))

\* calculate_device_positions(devices, access_points): the positions in the
\* order of devices; without an access point the dict stays empty
calculate_device_positions(devices, access_points) ==
    IF access_points = <<>> THEN <<>>
    ELSE [j \in 1..Len(devices) |-> DevicePosition(devices, j - 1, access_points)]

NoScan == [profiles |-> <<>>, devices |-> <<>>, positions |-> <<>>, done |-> FALSE]

\* WiFiNetworkAnalyzer.__init__ in a process that starts at most the monitor
\* threads of free and is followed for cap appends
WifiConstructedFor(free, cap) ==
    /\ monitoring = FALSE
    /\ monitoring_active = FALSE
    /\ history = <<>>
    /\ pc = [t \in Threads |-> IF t \in free THEN "none" ELSE "unused"]
    /\ interval = [t \in Threads |-> 0]
    /\ caught = {}
    /\ sinceStop = [t \in Threads |-> 0]
    /\ stamp = 0
    /\ recordCap = cap
    /\ measured = NoMeasure
    /\ last_scan = NoScan

\* WiFiNetworkAnalyzer.__init__ and the first run of the dashboard
WifiConstructed == WifiConstructedFor(Threads, MaxRecords)

\* A mutant of the trim: the newest record is dropped.
TrimmedNewest(h) == IF Len(h) > HistoryLimit THEN SubSeq(h, 1, Len(h) - 1) ELSE h

\* 'if len(self.history) > 100: self.history.pop(0)'
Trimmed(h) == IF Len(h) > HistoryLimit THEN Tail(h) ELSE h

\* A mutant of the loop condition: the loop never looks at the flag.
LoopConditionIgnored(flag) == TRUE

\* 'while self.monitoring:'
LoopCondition(flag) == flag

\* A mutant of the handler: the exception leaves monitor_loop.
OnExceptionUnhandled(step) == "done"

\* 'except Exception as e:' - where a raise in the try block takes the thread
OnException(step) == "except_sleep"

\* time.sleep(interval) raises ValueError on a negative interval
SleepRaises(secs) == secs < 0

\* the step that follows step in one iteration
NextStep(step) ==
    CASE step = "check"    -> "scan"
      [] step = "scan"     -> "distance"
      [] step = "distance" -> "append"
      [] step = "append"   -> "trim"
      [] step = "trim"     -> "sleep"
      [] OTHER             -> "check"

\* start_real_time_monitoring(secs): sets the flag and starts a new thread
StartRealTimeMonitoring(secs) ==
    \E t \in Threads :
        /\ pc[t] = "none"
        /\ \A u \in Threads : u < t => pc[u] # "none"
        /\ monitoring' = TRUE
        /\ pc' = [pc EXCEPT ![t] = "check"]
        /\ interval' = [interval EXCEPT ![t] = secs]
        /\ sinceStop' = [u \in Threads |-> 0]

\* A mutant of the stop: the flag is left as it is.
StopLeavesFlag ==
    /\ monitoring' = monitoring
    /\ sinceStop' = [u \in Threads |-> 0]
    /\ UNCHANGED <<pc, interval>>

\* stop_real_time_monitoring
StopRealTimeMonitoring ==
    /\ monitoring' = FALSE
    /\ sinceStop' = [u \in Threads |-> 0]
    /\ UNCHANGED <<pc, interval>>

\* toggle_monitoring, called by the Start / Stop Monitoring button
ToggleMonitoring ==
    /\ IF monitoring_active
       THEN StopRealTimeMonitoring
       ELSE \E secs \in IntervalSamples : StartRealTimeMonitoring(secs)
    /\ monitoring_active' = ~monitoring_active
    /\ UNCHANGED <<history, caught, stamp, recordCap, measured, last_scan, notWifiVars>>

\* 'while self.monitoring:' evaluated by thread t
Check(t) ==
    /\ pc[t] = "check"
    /\ pc' = [pc EXCEPT ![t] = IF LoopCondition(monitoring) THEN NextStep("check") ELSE "done"]
    /\ UNCHANGED <<monitoring, monitoring_active, history, interval, caught, sinceStop, stamp,
                   recordCap, measured, last_scan, notWifiVars>>

\* get_wifi_profiles and discover_devices_nmap
Scan(t) ==
    /\ pc[t] = "scan"
    /\ pc' = [pc EXCEPT ![t] = NextStep("scan")]
    /\ UNCHANGED <<monitoring, monitoring_active, history, interval, caught, sinceStop, stamp,
                   recordCap, measured, last_scan, notWifiVars>>

\* calculate_rssi_distance for every profile
Distance(t) ==
    /\ pc[t] = "distance"
    /\ pc' = [pc EXCEPT ![t] = NextStep("distance")]
    /\ UNCHANGED <<monitoring, monitoring_active, history, interval, caught, sinceStop, stamp,
                   recordCap, measured, last_scan, notWifiVars>>

\* self.history.append(...)
AppendRecord(t) ==
    /\ pc[t] = "append"
    /\ stamp < recordCap
    /\ stamp' = stamp + 1
    /\ history' = Append(history, stamp + 1)
    /\ sinceStop' = [sinceStop EXCEPT ![t] = IF monitoring THEN @ ELSE @ + 1]
    /\ pc' = [pc EXCEPT ![t] = NextStep("append")]
    /\ UNCHANGED <<monitoring, monitoring_active, interval, caught,
                   recordCap, measured, last_scan, notWifiVars>>

\* 'if len(self.history) > 100: self.history.pop(0)'
Trim(t) ==
    /\ pc[t] = "trim"
    /\ history' = Trimmed(history)
    /\ pc' = [pc EXCEPT ![t] = NextStep("trim")]
    /\ UNCHANGED <<monitoring, monitoring_active, interval, caught, sinceStop, stamp,
                   recordCap, measured, last_scan, notWifiVars>>

\* 'if len(self.history) > 100:' on its own, the UI thread being free to run
\* before the pop
TrimCheck(t) ==
    /\ pc[t] = "trim"
    /\ pc' = [pc EXCEPT ![t] = IF Len(history) > HistoryLimit THEN "pop" ELSE NextStep("trim")]
    /\ UNCHANGED <<monitoring, monitoring_active, history, interval, caught, sinceStop, stamp,
                   recordCap, measured, last_scan, notWifiVars>>

\* 'self.history.pop(0)': IndexError on an empty list
TrimPop(t) ==
    /\ pc[t] = "pop"
    /\ history' = IF history = <<>> THEN history ELSE Tail(history)
    /\ pc' = [pc EXCEPT ![t] = IF history = <<>> THEN OnException("trim") ELSE NextStep("trim")]
    /\ caught' = IF history = <<>> THEN caught \cup {t} ELSE caught
    /\ UNCHANGED <<monitoring, monitoring_active, interval, sinceStop, stamp,
                   recordCap, measured, last_scan, notWifiVars>>

\* the button "Clear History" of the dashboard: analyzer.history.clear()
ClearHistory ==
    /\ history # <<>>
    /\ history' = <<>>
    /\ UNCHANGED <<monitoring, monitoring_active, pc, interval, caught, sinceStop, stamp,
                   recordCap, measured, last_scan, notWifiVars>>

\* time.sleep(interval) at the end of the try block
Sleep(t) ==
    /\ pc[t] = "sleep"
    /\ pc' = [pc EXCEPT ![t] = IF SleepRaises(interval[t]) THEN OnException("sleep")
                              ELSE NextStep("sleep")]
    /\ caught' = IF SleepRaises(interval[t]) THEN caught \cup {t} ELSE caught
    /\ UNCHANGED <<monitoring, monitoring_active, history, interval, sinceStop, stamp,
                   recordCap, measured, last_scan, notWifiVars>>

\* a scan, the distance computation or the building of the record raises;
\* len() and pop(0) of a list longer than 100 do not
RaiseException(t) ==
    /\ pc[t] \in {"scan", "distance", "append"}
    /\ pc' = [pc EXCEPT ![t] = OnException(pc[t])]
    /\ caught' = caught \cup {t}
    /\ UNCHANGED <<monitoring, monitoring_active, history, interval, sinceStop, stamp,
                   recordCap, measured, last_scan, notWifiVars>>

\* the handler: print and time.sleep(interval); a raise here leaves the thread
ExceptSleep(t) ==
    /\ pc[t] = "except_sleep"
    /\ pc' = [pc EXCEPT ![t] = IF SleepRaises(interval[t]) THEN "done" ELSE "check"]
    /\ UNCHANGED <<monitoring, monitoring_active, history, interval, caught, sinceStop, stamp,
                   recordCap, measured, last_scan, notWifiVars>>

\* the first call of calculate_rssi_distance
CalculateRssiDistance ==
    /\ measured = NoMeasure
    /\ \E rssi \in RssiSamples, f \in FrequencySamples :
          measured' = [rssi |-> rssi, frequency |-> f,
                       distance |-> calculate_rssi_distance(rssi, f)]
    /\ UNCHANGED <<monitoring, monitoring_active, history, pc, interval, caught, sinceStop,
                   stamp, recordCap, last_scan, notWifiVars>>

\* the first generate_network_report: profiles, devices, distances, positions
GenerateNetworkReport ==
    /\ ~last_scan.done
    /\ \E n \in 0..MaxAccessPoints :
          \E found \in [1..n -> ProfileSamples], devices \in DeviceListSamples :
             LET profiles == [j \in 1..n |-> WithDistance(found[j])]
             IN  last_scan' = [profiles |-> profiles, devices |-> devices,
                               positions |-> calculate_device_positions(devices, profiles),
                               done |-> TRUE]
    /\ UNCHANGED <<monitoring, monitoring_active, history, pc, interval, caught, sinceStop,
                   stamp, recordCap, measured, notWifiVars>>

(***************************************************************************)
(* ft3.py: the CSV import (process_with_ai, calculate_financial_metrics).  *)
(* A cell of the file is a sequence of characters, the empty sequence for  *)
(* a missing value.  A value is a record: a float, NaN, None or inf.       *)
(***************************************************************************)
Num(f) == [kind |-> "float", f |-> f]
NaN    == [kind |-> "nan", f |-> FZero]
None   == [kind |-> "None", f |-> FZero]
Inf    == [kind |-> "inf", f |-> FZero]

DigitChars == <<"0", "1", "2", "3", "4", "5", "6", "7", "8", "9">>

IsDigits(s) == s # <<>> /\ \A i \in 1..Len(s) : \E d \in 1..10 : DigitChars[d] = s[i]

DigitValue(c) == (CHOOSE d \in 1..10 : DigitChars[d] = c) - 1

RECURSIVE DigitsValue(_)
DigitsValue(s) ==
    IF s = <<>> THEN 0
    ELSE DigitsValue(SubSeq(s, 1, Len(s) - 1)) * 10 + DigitValue(s[Len(s)])

\* the decimal number written by s without a sign, as a fraction n / d
UnsignedDecimal(s) ==
    LET dots == { i \in 1..Len(s) : s[i] = "." }
    IN  IF dots = {}
        THEN [ok |-> IsDigits(s), n |-> IF IsDigits(s) THEN DigitsValue(s) ELSE 0, d |-> 1]
        ELSE IF Cardinality(dots) > 1 THEN [ok |-> FALSE, n |-> 0, d |-> 1]
        ELSE LET at == CHOOSE i \in dots : TRUE
                 whole == SubSeq(s, 1, at - 1)
                 frac == SubSeq(s, at + 1, Len(s))
                 ok == /\ whole = <<>> \/ IsDigits(whole)
                       /\ frac = <<>> \/ IsDigits(frac)
                       /\ whole # <<>> \/ frac # <<>>
             IN  [ok |-> ok,
                  n |-> IF ok THEN DigitsValue(whole) * 10^Len(frac) + DigitsValue(frac)
                        ELSE 0,
                  d |-> 10^Len(frac)]

\* pd.to_numeric(errors='coerce') of one cell as read from the file
ToNumeric(s) ==
    LET signed == s # <<>> /\ s[1] \in {"-", "+"}
        body == IF signed THEN Tail(s) ELSE s
        parsed == UnsignedDecimal(body)
    IN  IF parsed.ok
        THEN Num(FSigned(signed /\ s[1] = "-", FRound(parsed.n, parsed.d, 0)))
        ELSE NaN

\* Series.fillna that leaves the values alone
FillnaNothing(v, fill) == v

\* Series.fillna(fill) on one value
Fillna(v, fill) == IF v.kind = "nan" THEN Num(fill) ELSE v

NumericColumns == {"montant", "taux_tva", "duree_amort", "taux_amort"}

CsvLine(type, nom, montant, taux_tva, duree_amort, taux_amort) ==
    [type |-> type, nom |-> nom, montant |-> montant, taux_tva |-> taux_tva,
     duree_amort |-> duree_amort, taux_amort |-> taux_amort]

\* lines of an imported file that has every expected column
CsvLineSamples ==
    { CsvLine("immobilisation", "machine", <<"1", "0", "0", "0">>, <<"2", "0">>,
              <<"5">>, <<"2", "0">>),
      CsvLine("immobilisation", "machine", <<"1", "0", "0", "0">>, <<"2", "0">>,
              <<>>, <<"2", "0">>),
      CsvLine("immobilisation", "logiciel", <<"a", "b", "c">>, <<"2", "0">>,
              <<"3">>, <<"3", "3", ".", "3">>),
      CsvLine("ventes", "service", <<"5", "0", "0", ".", "5">>, <<"2", "0">>, <<>>, <<>>),
      CsvLine("ventes", "service", <<"5", "0", "0", ".", "5">>, <<"n", "/", "a">>,
              <<>>, <<>>),
      CsvLine("ventes", "service", <<"5", "0", "0", ".", "5">>, <<"0">>, <<>>, <<>>),
      CsvLine("charges", "loyer", <<"2", "0", "0">>, <<"1", "0">>, <<"-">>, <<"x">>),
      CsvLine("charges", "loyer", <<"9", "0", "0">>, <<>>, <<"0">>, <<"0">>),
      CsvLine("charges", "loyer", <<"1", "2", "a">>, <<"1", "0">>, <<"0">>, <<"0">>),
      CsvLine("financement", "emprunt", <<"-", "3", "0">>, <<"1", ".", "2", ".", "3">>,
              <<"0">>, <<"0">>) }

\* the numeric conversion of process_with_ai on one row
ConvertRow(row) ==
    [c \in DOMAIN row |->
        IF c \in NumericColumns THEN Fillna(ToNumeric(row[c]), FZero) ELSE row[c]]

RECURSIVE DropDuplicates(_)
\* DataFrame.drop_duplicates(): the first of equal rows is kept
DropDuplicates(rows) ==
    IF rows = <<>> THEN <<>>
    ELSE LET front == DropDuplicates(SubSeq(rows, 1, Len(rows) - 1))
             last == rows[Len(rows)]
         IN  IF \E i \in 1..Len(front) : front[i] = last THEN front
             ELSE Append(front, last)

MetricKeys ==
    {"total_immobilisations", "total_financements", "total_charges", "total_ventes",
     "cash_flow_mensuel", "roi_mensuel", "roi_annuel", "payback_months",
     "payback_years", "van", "tri", "amortissement_annuel", "tva_collectee",
     "tva_deductible_achats", "tva_deductible_immo", "tva_nette"}

\* the dict metrics as initialised
MetricDefaults == [k \in MetricKeys |-> IF k = "tri" THEN None ELSE Num(FZero)]

RECURSIVE SumMontant(_, _)
\* valid_df[valid_df['type'] == type]['montant'].sum()
SumMontant(df, type) ==
    IF df = <<>> THEN FZero
    ELSE LET rest == SumMontant(SubSeq(df, 1, Len(df) - 1), type)
             last == df[Len(df)]
         IN  IF last.type = type /\ last.montant.kind = "float"
             THEN FAdd(rest, last.montant.f) ELSE rest

\* the totals, the monthly cash flow, the return and the payback period
TotalsAndReturn(metrics, df) ==
    LET immo == SumMontant(df, "immobilisation")
        cash == FSub(SumMontant(df, "ventes"), SumMontant(df, "charges"))
        roi == FDiv(cash, immo)
    IN  [metrics EXCEPT
            !["total_immobilisations"] = Num(immo),
            !["total_financements"] = Num(SumMontant(df, "financement")),
            !["total_charges"] = Num(SumMontant(df, "charges")),
            !["total_ventes"] = Num(SumMontant(df, "ventes")),
            !["cash_flow_mensuel"] = Num(cash),
            !["roi_mensuel"] = IF FPositive(immo) THEN Num(roi) ELSE Num(FZero),
            !["roi_annuel"] = IF FPositive(immo) THEN Num(FMul(roi, FromInt(12)))
                              ELSE Num(FZero),
            !["payback_months"] =
                IF ~FPositive(immo) THEN Num(FZero)
                ELSE IF FPositive(cash) THEN Num(FDiv(immo, cash)) ELSE Inf,
            !["payback_years"] =
                IF ~FPositive(immo) THEN Num(FZero)
                ELSE IF FPositive(cash) THEN Num(FDiv(FDiv(immo, cash), FromInt(12)))
                     ELSE Inf]

\* monthly_rate = 0.08 / 12
MonthlyRate == FDiv(FRound(8, 100, 0), FromInt(12))

RECURSIVE DiscountedSum(_, _, _, _)
\* the sum of flow / (1 + rate) ** i for i from lo to hi, added pairwise
DiscountedSum(flow, rate, lo, hi) ==
    IF lo > hi THEN FZero
    ELSE IF lo = hi THEN FDiv(flow, PowBySquaring(FAdd(FromInt(1), rate), lo))
    ELSE LET mid == (lo + hi) \div 2
         IN  FAdd(DiscountedSum(flow, rate, lo, mid), DiscountedSum(flow, rate, mid + 1, hi))

\* the net present value of [-investment] + [flow] * months at rate
npv(rate, investment, flow, months) ==
    FAdd(FNeg(investment), DiscountedSum(flow, rate, 1, months))

RECURSIVE SimplifiedVan(_, _, _, _)
\* "for i in range(60): van += cash_flow / ((1 + monthly_rate) ** (i + 1))"
SimplifiedVan(van, flow, rate, i) ==
    IF i >= 60 THEN van
    ELSE SimplifiedVan(FAdd(van, FDiv(flow, PowBySquaring(FAdd(FromInt(1), rate), i + 1))),
                       flow, rate, i + 1)

\* the branches under "if PYFINANCE_AVAILABLE", the flag being bound to available
VanAndTri(metrics, available) ==
    LET immo == metrics["total_immobilisations"].f
        cash == metrics["cash_flow_mensuel"].f
    IN  IF ~FPositive(cash)
        THEN [metrics EXCEPT !["van"] = Num(FNeg(immo)), !["tri"] = None]
        ELSE IF available
        THEN [metrics EXCEPT !["van"] = Num(npv(MonthlyRate, immo, cash, 60)),
                             !["tri"] = [kind |-> "irr * 12", f |-> FZero]]
        ELSE [metrics EXCEPT !["van"] = Num(SimplifiedVan(FNeg(immo), cash, MonthlyRate, 0)),
                             !["tri"] = None]

RECURSIVE SumRated(_, _, _, _)
\* the sum of montant * (rate / 100) over the rows of a type; for the
\* depreciation, over the rows with duree_amort > 0
SumRated(df, type, rate, needs_duree) ==
    IF df = <<>> THEN FZero
    ELSE LET rest == SumRated(SubSeq(df, 1, Len(df) - 1), type, rate, needs_duree)
             last == df[Len(df)]
         IN  IF last.type = type /\ (needs_duree => FPositive(last.duree_amort.f))
             THEN FAdd(rest, FMul(last.montant.f, FDiv(last[rate].f, FromInt(100))))
             ELSE rest

\* the annual depreciation and the VAT
AmortAndTva(metrics, df) ==
    LET collectee == SumRated(df, "ventes", "taux_tva", FALSE)
        achats == SumRated(df, "charges", "taux_tva", FALSE)
        immo == SumRated(df, "immobilisation", "taux_tva", FALSE)
    IN  [metrics EXCEPT
            !["amortissement_annuel"] = Num(SumRated(df, "immobilisation", "taux_amort", TRUE)),
            !["tva_collectee"] = Num(collectee),
            !["tva_deductible_achats"] = Num(achats),
            !["tva_deductible_immo"] = Num(immo),
            !["tva_nette"] = Num(FSub(FSub(collectee, achats), immo))]

\* the names bound at module level when calculate_financial_metrics runs
ModuleGlobals ==
    {"st", "pd", "np", "npf", "datetime", "px", "json", "os", "tempfile", "plt",
     "FPDF", "pf", "warnings"}

\* "except Exception" that hands back nothing
OnMetricsErrorEmpty(metrics) == EmptyDict

\* "except Exception" of calculate_financial_metrics: the dict is kept as it is
OnMetricsError(metrics) == metrics

\* calculate_financial_metrics(df), the later definition; available is the
\* value of PYFINANCE_AVAILABLE where the name is bound
calculate_financial_metrics(df, available) ==
    LET computed == TotalsAndReturn(MetricDefaults, df)
    IN  IF "PYFINANCE_AVAILABLE" \notin ModuleGlobals
        THEN [raised |-> "NameError", metrics |-> OnMetricsError(computed)]
        ELSE [raised |-> "none",
              metrics |-> AmortAndTva(VanAndTri(computed, available), df)]

\* process_with_ai(df) for a table with every expected column
process_with_ai(rows, available) ==
    IF rows = <<>>
    THEN [rows |-> rows, df |-> <<>>, empty |-> TRUE, raised |-> "none",
          metrics |-> EmptyDict, done |-> TRUE]
    ELSE LET df == DropDuplicates([i \in 1..Len(rows) |-> ConvertRow(rows[i])])
             result == calculate_financial_metrics(df, available)
         IN  [rows |-> rows, df |-> df, empty |-> FALSE, raised |-> result.raised,
              metrics |-> result.metrics, done |-> TRUE]

\* no file has been imported
NoImport ==
    [rows |-> <<>>, df |-> <<>>, empty |-> FALSE, raised |-> "none",
     metrics |-> EmptyDict, done |-> FALSE]

RECURSIVE TablesOf(_)
\* the tables of n lines
TablesOf(n) ==
    IF n = 0 THEN { <<>> }
    ELSE { Append(table, line) : table \in TablesOf(n - 1), line \in CsvLineSamples }

\* show_csv_import: the first file of the session is uploaded and analysed
ImportCsv ==
    /\ ~imported.done
    /\ \E n \in 0..MaxImportRows : \E rows \in TablesOf(n) : \E available \in BOOLEAN :
          imported' = process_with_ai(rows, available)
    /\ UNCHANGED <<cashflow, vat, statement, notTableVars>>

(***************************************************************************)
(* ft3.py: the VAT budget (show_vat_budget).  The amounts of this page are *)
(* exact: an amount is an integer number of units of 0.0001 DHS, and the   *)
(* amounts explored are those whose twelfth and whose percentages are      *)
(* whole numbers of units.                                                 *)
(***************************************************************************)
\* the amount of a number written in centimes
Units(centimes) == centimes * 100

\* f"{x:,.2f}" of an exact amount: centimes, rounded half to even
RoundToCentimes(x) ==
    LET q == Abs(x) \div 100
        r == Abs(x) % 100
        c == IF 2 * r > 100 \/ (2 * r = 100 /\ q % 2 = 1) THEN q + 1 ELSE q
    IN  [negative |-> x < 0, centimes |-> c]

RECURSIVE SumAmounts(_)
\* the sum of a row of exact amounts
SumAmounts(row) == IF row = <<>> THEN 0 ELSE Head(row) + SumAmounts(Tail(row))

\* vat_budget_data of init_session_state
DefaultVatData ==
    [achat_ht |-> Units(620000), achat_tva |-> Units(124000),
     vente_ht |-> Units(4500471), vente_tva |-> Units(900094),
     tva_immobilisations |-> <<Units(3662800)>>]

\* income_statement['Chiffre d'affaires'][0] is absent
NoCa == -1

\* x * (tva_rate / 100)
Percent(x, tva_rate) == (x \div 100) * tva_rate + ((x % 100) * tva_rate) \div 100

\* the synchronisation with the income statement
SyncVat(data, sync, ca0, tva_rate) ==
    IF sync /\ ca0 # NoCa
    THEN [data EXCEPT !.vente_ht = Units(ca0) \div 12,
                      !.vente_tva = Percent(Units(ca0) \div 12, tva_rate)]
    ELSE data

\* "Calculer automatiquement la TVA"
AutoCalculate(data, auto, tva_rate) ==
    IF auto
    THEN [data EXCEPT !.achat_tva = Percent(data.achat_ht, tva_rate),
                      !.vente_tva = Percent(data.vente_ht, tva_rate)]
    ELSE data

\* the fixed-asset VAT of a month, deducted every month
TvaImmoEveryMonth(tva_immo, month) == tva_immo

\* the row "TVA deductible sur immobilisation": month 1 only
TvaImmoOfMonth(tva_immo, month) == IF month = 1 THEN tva_immo ELSE 0

\* one run of show_vat_budget; edit is the change made in a data editor
VatBudget(num_months, tva_rate, sync, auto, ca0, data, edit) ==
    LET synced == SyncVat(data, sync, ca0, tva_rate)
        edited == IF edit.field = "none" THEN synced
                  ELSE [synced EXCEPT ![edit.field] = edit.value]
        final == AutoCalculate(edited, auto, tva_rate)
        tva_collectee == final.vente_tva
        tva_deductible == final.achat_tva
        tva_immo == IF final.tva_immobilisations = <<>> THEN 0
                    ELSE final.tva_immobilisations[1]
        row_immo == [mo \in 1..num_months |-> TvaImmoOfMonth(tva_immo, mo)]
        tva_nette == [mo \in 1..num_months |->
                         tva_collectee - tva_deductible - row_immo[mo]]
        total_tva_collected == tva_collectee * num_months
        total_tva_deductible == (tva_deductible * num_months) + tva_immo
        total_tva_nette == total_tva_collected - total_tva_deductible
    IN  [num_months |-> num_months, tva_rate |-> tva_rate, sync |-> sync, auto |-> auto,
         ca0 |-> ca0, data |-> final, shown |-> TRUE,
         row_immo |-> row_immo, tva_nette |-> tva_nette,
         total_tva_nette |-> RoundToCentimes(total_tva_nette)]

NoEdit == [field |-> "none", value |-> 0]

\* the page has not been displayed
NoVat ==
    [num_months |-> 12, tva_rate |-> 20, sync |-> TRUE, auto |-> TRUE,
     ca0 |-> NoCa, data |-> DefaultVatData, shown |-> FALSE,
     row_immo |-> <<>>, tva_nette |-> <<>>, total_tva_nette |-> RoundToCentimes(0)]

\* the slider "Taux de TVA (%)"
TvaRateSamples == {0, 7, 20, 30}

\* values typed into the data editors
VatEditSamples ==
    { [field |-> "achat_ht", value |-> Units(100001)],
      [field |-> "achat_tva", value |-> Units(5)],
      [field |-> "vente_tva", value |-> Units(333333)] }

\* the rows left in the editor "TVA sur immobilisations"
VatImmoSamples == { <<>>, <<Units(12345), Units(3662800)>> }

\* one run of the page with the widgets as they are, but for the changes given
VatRerun(changes, edit) ==
    LET w == changes @@ vat
    IN  VatBudget(w.num_months, w.tva_rate, w.sync, w.auto, w.ca0, vat.data, edit)

\* the page "Budget TVA" is opened
OpenVatBudget ==
    /\ ~vat.shown
    /\ vat' = VatRerun([shown |-> TRUE], NoEdit)
    /\ UNCHANGED <<cashflow, imported, statement, notTableVars>>

\* the income statement page has stored a first-year turnover
StoreIncomeStatement ==
    /\ vat.shown /\ vat.ca0 = NoCa
    /\ vat' = VatRerun([ca0 |-> 15000000], NoEdit)
    /\ UNCHANGED <<cashflow, imported, statement, notTableVars>>

\* a slider of the page is moved
SlideVat ==
    /\ vat.shown
    /\ \/ \E n \in 3..12 : vat' = VatRerun([num_months |-> n], NoEdit)
       \/ \E r \in TvaRateSamples : vat' = VatRerun([tva_rate |-> r], NoEdit)
    /\ UNCHANGED <<cashflow, imported, statement, notTableVars>>

\* one of the two checkboxes is clicked
CheckVat ==
    /\ vat.shown
    /\ \/ vat' = VatRerun([sync |-> ~vat.sync], NoEdit)
       \/ vat' = VatRerun([auto |-> ~vat.auto], NoEdit)
    /\ UNCHANGED <<cashflow, imported, statement, notTableVars>>

\* a cell of a data editor is edited
EditVatData ==
    /\ vat.shown
    /\ \/ \E edit \in VatEditSamples : vat' = VatRerun([shown |-> TRUE], edit)
       \/ \E rows \in VatImmoSamples :
             vat' = VatRerun([shown |-> TRUE],
                             [field |-> "tva_immobilisations", value |-> rows])
    /\ UNCHANGED <<cashflow, imported, statement, notTableVars>>

(***************************************************************************)
(* ft3.py: the monthly cash-flow table (show_monthly_cashflow).  The four  *)
(* dicts of monthly_cashflow_data are rebuilt from the data editors in     *)
(* every run; the model keeps the values of each dict in key order.        *)
(***************************************************************************)
\* the float of an amount written with two decimals
Dhs(centimes) == FSigned(centimes < 0, FRound(Abs(centimes), 100, 0))

RECURSIVE SumFrom(_, _)
SumFrom(acc, values) ==
    IF values = <<>> THEN acc ELSE SumFrom(FAdd(acc, Head(values)), Tail(values))

\* sum(d.values())
SumValues(values) == SumFrom(FZero, values)

\* f"{x:,.2f}": the sign and the number of centimes, rounded half to even
Format2f(x) ==
    LET n == Abs(x[1]) * 100
        d == IF x[2] < 0 THEN 2^(0 - x[2]) ELSE 1
        w == IF x[2] < 0 THEN n ELSE n * 2^x[2]
        q == w \div d
        r == w % d
    IN  [negative |-> x[1] < 0,
         centimes |-> IF 2 * r > d \/ (2 * r = d /\ q % 2 = 1) THEN q + 1 ELSE q]

\* the slider "Nombre de mois a afficher"
MonthSamples == 3..12

CashflowSections == {"ressources", "chiffre_affaires", "immobilisations",
                     "charges_exploitation"}

\* monthly_cashflow_data of init_session_state
DefaultCashflowData ==
    [ressources |-> <<Dhs(7051131), Dhs(13400000), Dhs(9000000)>>,
     chiffre_affaires |-> <<Dhs(4500471)>>,
     immobilisations |-> <<Dhs(8684000), Dhs(9630000)>>,
     charges_exploitation |-> <<Dhs(0), Dhs(184930), Dhs(776094), Dhs(620000),
                                Dhs(2594622), Dhs(8000)>>]

\* the values a data editor returns after an edit
EditedValueSamples ==
    { <<>>, <<Dhs(1000000), Dhs(33)>> }

\* the loop variable current_solde, always the initial balance
CurrentSoldeInitial(soldes, solde_initial, i) == solde_initial

\* the loop variable current_solde of month i (from 0)
CurrentSolde(soldes, solde_initial, i) ==
    IF i = 0 THEN solde_initial ELSE soldes[Len(soldes)]

RECURSIVE SoldesLoop(_, _, _, _, _)
\* "for i in range(num_months)" from month i on
SoldesLoop(soldes, solde_initial, monthly_balance, i, num_months) ==
    IF i >= num_months THEN soldes
    ELSE LET current_solde == CurrentSolde(soldes, solde_initial, i)
             solde_month == FAdd(current_solde, monthly_balance)
         IN  SoldesLoop(Append(soldes, solde_month), solde_initial, monthly_balance,
                        i + 1, num_months)

\* one run of show_monthly_cashflow
MonthlyCashflow(num_months, data) ==
    LET total_encaissement == SumValues(data.chiffre_affaires)
        total_decaissement == SumValues(data.charges_exploitation)
        solde_initial == FSub(SumValues(data.ressources), SumValues(data.immobilisations))
        monthly_balance == FSub(total_encaissement, total_decaissement)
        soldes == SoldesLoop(<<solde_initial>>, solde_initial, monthly_balance, 0, num_months)
    IN  [num_months |-> num_months, data |-> data, shown |-> TRUE,
         total_encaissement |-> total_encaissement,
         total_decaissement |-> total_decaissement,
         soldes |-> soldes,
         solde_final |-> Format2f(soldes[Len(soldes)])]

\* the page has not been displayed
NoCashflow ==
    [num_months |-> 12, data |-> DefaultCashflowData, shown |-> FALSE,
     total_encaissement |-> FZero, total_decaissement |-> FZero,
     soldes |-> <<>>, solde_final |-> Format2f(FZero)]

\* the page "Tresorerie Mensuelle" is opened
OpenMonthlyCashflow ==
    /\ ~cashflow.shown
    /\ cashflow' = MonthlyCashflow(cashflow.num_months, cashflow.data)
    /\ UNCHANGED <<imported, vat, statement, notTableVars>>

\* the slider is moved
SlideMonths ==
    /\ cashflow.shown
    /\ \E n \in MonthSamples \ {cashflow.num_months} :
          cashflow' = MonthlyCashflow(n, cashflow.data)
    /\ UNCHANGED <<imported, vat, statement, notTableVars>>

\* one of the four data editors is edited
EditCashflowData ==
    /\ cashflow.shown
    /\ \E section \in CashflowSections, values \in EditedValueSamples :
          cashflow' = MonthlyCashflow(cashflow.num_months,
                                      [cashflow.data EXCEPT ![section] = values])
    /\ UNCHANGED <<imported, vat, statement, notTableVars>>

(***************************************************************************)
(* ft3.py: the credits entered on the Investments page, the income         *)
(* statement (show_income_statement) and the projection of the Cash Flow   *)
(* page (show_cash_flow).  income_statement_params keeps its defaults.     *)
(***************************************************************************)
\* the widgets "Nom du credit", "Montant (DHS)", "Taux (%)" and "Duree (ans)"
NewCreditSamples ==
    { [name |-> "Credit bancaire", amount |-> 100000, pct |-> 12, duration |-> 1],
      [name |-> "Leasing", amount |-> 1000, pct |-> 5, duration |-> 2],
      [name |-> "Pret d'honneur", amount |-> 100000, pct |-> 0, duration |-> 2],
      [name |-> "Decouvert", amount |-> 0, pct |-> 5, duration |-> 1] }

\* show_investments: new_credit_rate = st.number_input("Taux (%)", ...) / 100
NewCreditRate(pct) == FDiv(FromInt(pct), FromInt(100))

\* the dict appended by the button "Ajouter un credit"
NewCredit(w) ==
    [Nom |-> w.name, Montant |-> FromInt(w.amount),
     Taux |-> NewCreditRate(w.pct), Duree |-> w.duration]

\* show_amortization: rate = float(selected_credit["Taux"])
AmortizationRate(c) == c.Taux

\* calculate_financial_charges: rate = float(credit.get("Taux", 5)) / 100
ChargesRate(c) == FDiv(c.Taux, FromInt(100))

RECURSIVE AnnualInterests(_)
\* calculate_financial_charges: the list 'charges'
AnnualInterests(credits) ==
    IF credits = <<>> THEN <<>>
    ELSE LET c == Head(credits)
             rest == AnnualInterests(Tail(credits))
         IN  IF FPositive(c.Montant) /\ FPositive(ChargesRate(c)) /\ c.Duree > 0
             THEN <<FMul(c.Montant, ChargesRate(c))>> \o rest
             ELSE rest

\* 'return sum(charges) if charges else 3350.0'
calculate_financial_charges(credits) ==
    IF AnnualInterests(credits) = <<>> THEN FromInt(3350)
    ELSE SumValues(AnnualInterests(credits))

\* the keys of st.session_state.income_statement
KeyCa       == "Chiffre d'affaires"
KeyCharges  == "Charges d'exploitation"
KeyExploit  == "Resultat d'exploitation"
KeyFinance  == "Charges financieres"
KeyNet      == "Resultat net"

\* show_income_statement: the dict stored in st.session_state.income_statement
IncomeStatement(credits) ==
    LET one    == FromInt(1)
        base   == FromInt(150000)
        growth_n  == Dhs(20)
        growth_n1 == Dhs(20)
        cost_ratio == Dhs(80)
        efficiency_improvement == Dhs(2)
        ca == << base,
                 FMul(base, FAdd(one, growth_n)),
                 FMul(FMul(base, FAdd(one, growth_n)), FAdd(one, growth_n1)) >>
        ratios == [i \in 1..3 |->
                      FMul(cost_ratio, FPow(FSub(one, efficiency_improvement), i - 1))]
        charges == [i \in 1..3 |-> FMul(ca[i], ratios[i])]
        operating == [i \in 1..3 |-> FSub(ca[i], charges[i])]
        financial_charges == calculate_financial_charges(credits)
        pretax == [i \in 1..3 |-> FSub(operating[i], financial_charges)]
        taxes == [i \in 1..3 |-> FMax(FZero, FMul(pretax[i], Dhs(15)))]
        net == [i \in 1..3 |-> FSub(pretax[i], taxes[i])]
    IN  (KeyCa :> ca) @@ (KeyCharges :> charges) @@ (KeyExploit :> operating)
        @@ (KeyFinance :> [i \in 1..3 |-> financial_charges]) @@ (KeyNet :> net)

RECURSIVE ExtendList(_, _, _, _)
\* show_cash_flow: 'while len(ca) < len(years): ca.append(last_value * factor)'
ExtendList(list, length, default, factor) ==
    IF Len(list) >= length THEN list
    ELSE ExtendList(Append(list, FMul(IF list = <<>> THEN default ELSE list[Len(list)],
                                      factor)),
                    length, default, factor)

\* show_cash_flow: the income statement after the two loops.  The lists
\* returned by .get() are the lists of the dict; the [] of an absent key
\* is not stored.
ExtendedStatement(is, years) ==
    LET one == FromInt(1)
        ca_done == IF KeyCa \in DOMAIN is
                   THEN [is EXCEPT ![KeyCa] = ExtendList(@, years, FromInt(150000),
                                                         FAdd(one, Dhs(20)))]
                   ELSE is
    IN  IF KeyCharges \in DOMAIN ca_done
        THEN [ca_done EXCEPT ![KeyCharges] = ExtendList(@, years, FromInt(120000),
                                                        FSub(one, Dhs(2)))]
        ELSE ca_done

\* st.number_input("Nombre d'annees a projeter", min_value=1, max_value=5)
MaxProjection == 5

\* init_session_state: no credit, three projected years, income_statement = {}
NoStatement ==
    [page |-> "none", credits |-> <<>>, annees_projection |-> 3,
     income_statement |-> EmptyDict]

\* show_investments with the button "Ajouter un credit" clicked
AddCredit ==
    /\ Len(statement.credits) < MaxCredits
    /\ \E w \in NewCreditSamples :
          statement' = [statement EXCEPT
                           !.page = "Investissements",
                           !.credits = IF w.name # "" /\ w.amount > 0
                                       THEN Append(@, NewCredit(w)) ELSE @]
    /\ UNCHANGED <<cashflow, imported, vat, notTableVars>>

\* the page "Compte de Resultat" is displayed
ShowIncomeStatement ==
    /\ statement' = [statement EXCEPT
                        !.page = "Compte de Resultat",
                        !.income_statement = IncomeStatement(statement.credits)]
    /\ UNCHANGED <<cashflow, imported, vat, notTableVars>>

\* the page "Cash Flow" is displayed with "Nombre d'annees a projeter" at n
ShowCashFlowYears ==
    /\ \E n \in 1..MaxProjection :
          statement' = [statement EXCEPT
                           !.page = "Cash Flow",
                           !.annees_projection = n,
                           !.income_statement = ExtendedStatement(@, n + 1)]
    /\ UNCHANGED <<cashflow, imported, vat, notTableVars>>

\* the tables and the statement are as init_session_state leaves them
TablesParked ==
    cashflow = NoCashflow /\ imported = NoImport /\ vat = NoVat /\ statement = NoStatement

\* the form apps do not run in the WiFi process
AppsParked ==
    /\ app = "wifi"
    /\ session = EmptyDict
    /\ choice = "none"
    /\ uploaded = 0
    /\ download = NoDownload
    /\ savedFile = NoDownload
    /\ lastEvent = "none"
    /\ wrote = FALSE
    /\ verdict = "none"
    /\ saveFile = NoFile
    /\ p4page = "none"
    /\ events = 0

InitWifi == AppsParked /\ WifiConstructed /\ AmortIdle /\ PdfParked /\ TablesParked

NextWifi ==
    \/ ToggleMonitoring
    \/ \E t \in Threads :
          \/ Check(t) \/ Scan(t) \/ Distance(t) \/ AppendRecord(t) \/ Trim(t)
          \/ Sleep(t) \/ RaiseException(t) \/ ExceptSleep(t)

SpecWifi == InitWifi /\ [][NextWifi]_vars

\* main of wifi_analyzer.py: one monitor thread, followed past the history
\* limit
InitHistory ==
    AppsParked /\ WifiConstructedFor({1}, MaxAppends) /\ AmortIdle /\ PdfParked /\ TablesParked

SpecHistory == InitHistory /\ [][NextWifi]_vars

\* the dashboard with one monitor thread and the history tab; the length
\* test and the pop are separate steps of the thread
NextClear ==
    \/ ToggleMonitoring
    \/ ClearHistory
    \/ \E t \in Threads :
          \/ Check(t) \/ Scan(t) \/ Distance(t) \/ AppendRecord(t) \/ TrimCheck(t)
          \/ TrimPop(t) \/ Sleep(t) \/ ExceptSleep(t)

SpecClear == InitHistory /\ [][NextClear]_vars

\* a network report on its own
SpecScan == InitWifi /\ [][GenerateNetworkReport]_vars

\* a distance computation on its own
SpecRssi == InitWifi /\ [][CalculateRssiDistance]_vars

\* the schedule computation on its own
InitAmort == AppsParked /\ WifiConstructed /\ AmortIdle /\ PdfParked /\ TablesParked

NextAmort == ShowAmortization \/ GraceRow \/ RepaymentRow \/ PdfCreditTable \/ PdfRow

SpecAmort == InitAmort /\ [][NextAmort]_vars

\* the monthly cash-flow page on its own
InitCashflow == AppsParked /\ WifiConstructed /\ AmortIdle /\ PdfParked /\ TablesParked

NextCashflow == OpenMonthlyCashflow \/ SlideMonths \/ EditCashflowData

SpecCashflow == InitCashflow /\ [][NextCashflow]_vars

\* the VAT budget page on its own
NextVat == OpenVatBudget \/ StoreIncomeStatement \/ SlideVat \/ CheckVat \/ EditVatData

SpecVat == InitCashflow /\ [][NextVat]_vars

\* the CSV import on its own
SpecImport == InitCashflow /\ [][ImportCsv]_vars

NextStatement == AddCredit \/ ShowIncomeStatement \/ ShowCashFlowYears

SpecStatement == InitCashflow /\ [][NextStatement]_vars

\* the report generation on its own
InitPdf ==
    AppsParked /\ WifiConstructed /\ AmortIdle /\ PdfIdle /\ fpdf \in FpdfLibraries /\ TablesParked

NextPdf ==
    \/ GeneratePdfReport \/ BodyAddPage \/ RenderSection \/ SectionRaises
    \/ BodyOutput \/ HandlerAddPage \/ HandlerOutput \/ CallerDone

SpecPdf == InitPdf /\ [][NextPdf]_vars

(***************************************************************************)
(* Properties of the report generation                                     *)
(***************************************************************************)

\* C10, as stated: generate_pdf_report never propagates an error to its
\* caller; it returns the path of the full report when the generation
\* succeeded and the path of error_report.pdf when a step of it failed.
PdfCallAlwaysReturns ==
    /\ pdfStage # "propagated"
    /\ pdfStage = "returned" =>
          pdfResult = IF pdfFailed THEN "error_report" ELSE "report"

(***************************************************************************)
(* Properties of the amortization schedule                                 *)
(***************************************************************************)
RECURSIVE MinExponent(_, _)
\* the least exponent of e and the Capital column of rows
MinExponent(rows, e) ==
    IF rows = <<>> THEN e
    ELSE MinExponent(Tail(rows),
                     IF Head(rows).Capital[2] < e THEN Head(rows).Capital[2] ELSE e)

RECURSIVE CapitalSumAt(_, _)
\* the exact sum of the Capital column of rows, in units of 2^e
CapitalSumAt(rows, e) ==
    IF rows = <<>> THEN 0
    ELSE Head(rows).Capital[1] * 2^(Head(rows).Capital[2] - e) + CapitalSumAt(Tail(rows), e)

\* C7, as stated: when show_amortization has built the whole schedule, the
\* principal repayments of its rows (column Capital) add up to the original
\* principal.
CapitalSumIsPrincipal ==
    (view = "page" /\ phase = "done") =>
        LET e == MinExponent(schedule, credit.Montant[2])
        IN  CapitalSumAt(schedule, e) = credit.Montant[1] * 2^(credit.Montant[2] - e)

\* C8: every row of the schedule of show_amortization and of the credit table
\* of the PDF report shows a remaining balance (Solde) of at least 0.
SoldeNonNegative ==
    \A i \in 1..Len(schedule) : schedule[i].Solde[1] >= 0

\* C8 witness: the computed balance of the last row is negative and the row
\* shows a Solde of zero.
NegativeBalanceClamped ==
    /\ phase = "done"
    /\ balance[1] < 0
    /\ schedule[Len(schedule)].Solde = FZero

StopEndsMonitorLoop ==
    /\ [](\A t \in Threads : sinceStop[t] <= 1)
    /\ [][\A t \in Threads :
            /\ (pc[t] = "check" /\ pc'[t] # "check" /\ ~monitoring) => pc'[t] = "done"
            /\ (pc[t] # "done" /\ pc'[t] = "done") => (pc[t] = "check" /\ ~monitoring)
         ]_vars

\* C5 witness: a thread has appended one record after the stop and has then
\* left its loop.
ThreadLeftAfterStop ==
    \E t \in Threads : pc[t] = "done" /\ sinceStop[t] = 1 /\ ~monitoring

\* C6: an exception raised by the scan, the distance computation, the append
\* or the trim takes the thread to the handler and never out of monitor_loop;
\* the handler sleeps and returns to the loop test, and the loop test starts
\* another poll whenever the flag is still True.
ExceptionKeepsThreadPolling ==
    [][\A t \in Threads :
          /\ (pc[t] \in {"scan", "distance", "append", "trim"} /\ pc'[t] # pc[t]) =>
                \/ pc'[t] = "except_sleep"
                \/ <<pc[t], pc'[t]>> \in {<<"scan", "distance">>, <<"distance", "append">>,
                                          <<"append", "trim">>, <<"trim", "sleep">>}
          /\ (pc[t] = "except_sleep" /\ pc'[t] # pc[t]) => pc'[t] = "check"
          /\ (pc[t] = "check" /\ pc'[t] # pc[t] /\ monitoring) => pc'[t] = "scan"
      ]_vars

\* C6 witness: a thread that handled an exception is polling again.
ThreadPollsAfterException ==
    \E t \in caught : pc[t] = "scan" /\ monitoring

(***************************************************************************)
(* Specification SpecApps: a browser session on one of the form apps       *)
(***************************************************************************)
Scripts == {"ft3", "p4", "proto2"}

\* values a user types into a number input (min_value = 0.0)
AmountSamples == {0, 100}

\* values a user types into a cell of a data editor (no minimum)
CellSamples == {-100, 12716869, 12716870, 12716871}

NameSamples == {"", "Local"}

\* the balance sheet cells edited in the exploration: <<category, section, row>>
BilanCellSamples ==
    { <<"actif", "stocks", 1>>, <<"passif", "tresorerie_passif", 1>>,
      <<"passif", "dettes_financement", 2>> }

InvestmentFields ==
    {"brand_registration", "sarl_formation", "web_dev", "cash_contribution", "in_kind"}

\* the tables of show_investments: editor key, session key, add button
InvestmentTables ==
    { [editor |-> "immos_editor", key |-> "immos", button |-> "add_immo"],
      [editor |-> "credits_editor", key |-> "credits", button |-> "add_credit"],
      [editor |-> "subsidies_editor", key |-> "subsidies", button |-> "add_subsidy"] }

InitApps ==
    /\ app \in Scripts
    /\ session = EmptyDict
    /\ choice = "Fiche Entreprise"
    /\ uploaded = 0
    /\ download = NoDownload
    /\ savedFile = NoDownload
    /\ lastEvent = "none"
    /\ wrote = FALSE
    /\ verdict = "none"
    /\ saveFile = NoFile
    /\ p4page = "Presentation du Projet"
    /\ events = 0
    /\ WifiConstructed
    /\ AmortIdle
    /\ PdfParked
    /\ TablesParked

\* one run of ft3's main for the interaction ev, on page page, uploader up
Ft3Run(ev, page, up) ==
    /\ app = "ft3"
    /\ \E parses \in BOOLEAN :
          session' = MainSession(session, page, up, [parses |-> parses] @@ ev, savedFile)
    /\ choice' = page
    /\ uploaded' = up
    /\ download' = PreparedDownload(SidebarSession(session, ev))
    /\ savedFile' = IF ev.kind = "download" THEN download ELSE savedFile
    /\ lastEvent' = ev.kind
    /\ wrote' = SaveClicked(ev)
    /\ verdict' = IF page = "Bilan" THEN BilanMessage(session') ELSE "none"
    /\ UNCHANGED <<app, saveFile, p4page>>
    /\ UNCHANGED notAppVars

\* the first run of the script, when the page is opened
Ft3Open ==
    /\ events = 0
    /\ events' = 1
    /\ Ft3Run(Ev("open", "", 0, 0, ""), choice, uploaded)

Interact == events \in 1..MaxEvents /\ events' = events + 1

Ft3Navigate ==
    /\ Interact
    /\ \E p \in Pages : Ft3Run(Ev("navigate", "", 0, 0, ""), p, uploaded)

Ft3EditNumber ==
    /\ Interact
    /\ \E v \in AmountSamples :
          \/ /\ choice = "Investissements"
             /\ \E f \in InvestmentFields : Ft3Run(Ev("number", f, 0, v, ""), choice, uploaded)
          \/ /\ choice = "Cash Flow"
             /\ Ft3Run(Ev("number", "systeme_info", 0, v, ""), choice, uploaded)

Ft3EditText ==
    /\ Interact
    /\ choice = "Fiche Entreprise"
    /\ \E n \in NameSamples : Ft3Run(Ev("text", "company_name", 0, 0, n), choice, uploaded)

Ft3AddRow ==
    /\ Interact
    /\ choice = "Investissements"
    /\ \E tb \in InvestmentTables, n \in NameSamples, v \in AmountSamples :
          /\ Len(session[tb.key]) < MaxRows
          /\ Ft3Run(Ev("add", tb.button, 0, v, n), choice, uploaded)

Ft3EditCell ==
    /\ Interact
    /\ \E v \in CellSamples :
          \/ /\ choice = "Investissements"
             /\ \E tb \in InvestmentTables : \E i \in 1..Len(session[tb.key]) :
                   Ft3Run(Ev("edit_cell", tb.editor, i, v, ""), choice, uploaded)
          \/ /\ choice = "Cash Flow"
             /\ \E i \in 1..Len(session.frais_preliminaires) :
                   Ft3Run(Ev("edit_cell", "editor_frais_prelim", i, v, ""), choice, uploaded)
          \/ /\ choice = "Bilan"
             /\ \E c \in BilanCellSamples :
                   Ft3Run(Ev("edit_cell", EditorKey(c[1], c[2]), c[3], v, ""), choice, uploaded)

Ft3DeleteRow ==
    /\ Interact
    /\ \/ /\ choice = "Investissements"
          /\ \E tb \in InvestmentTables : \E i \in 1..Len(session[tb.key]) :
                Ft3Run(Ev("delete_row", tb.editor, i, 0, ""), choice, uploaded)
       \/ /\ choice = "Cash Flow"
          /\ \E i \in 1..Len(session.frais_preliminaires) :
                Ft3Run(Ev("delete_row", "editor_frais_prelim", i, 0, ""), choice, uploaded)

Ft3ApplyCsv ==
    /\ Interact
    /\ choice = "Importation CSV"
    /\ \E i \in 1..Len(CsvSamples) : Ft3Run(Ev("apply_csv", "", i, 0, ""), choice, uploaded)

Ft3Save ==
    /\ Interact
    /\ Ft3Run(Ev("save_click", "", 0, 0, ""), choice, uploaded)

Ft3Reset ==
    /\ Interact
    /\ Ft3Run(Ev("reset", "", 0, 0, ""), choice, 0)

Ft3Upload ==
    /\ Interact
    /\ \E d \in 1..Len(JsonDocs) : Ft3Run(Ev("upload", "", d, 0, ""), choice, d)

Ft3RemoveUpload ==
    /\ Interact
    /\ uploaded # 0
    /\ Ft3Run(Ev("remove_upload", "", 0, 0, ""), choice, 0)

\* a click on the download button: the browser saves the data of the last run
Ft3Download ==
    /\ Interact
    /\ uploaded # SavedIndex
    /\ Ft3Run(Ev("download", "", 0, 0, ""), choice, uploaded)

\* the saved download is put into the uploader
Ft3UploadSaved ==
    /\ Interact
    /\ savedFile.doc.valid
    /\ Ft3Run(Ev("upload", "", SavedIndex, 0, ""), choice, SavedIndex)

\* one run of the p4 / proto2 script for the interaction ev on page page
P4Run(ev, page) ==
    /\ app \in {"p4", "proto2"}
    /\ LET st == P4Main(saveFile, app, page, ev)
       IN  /\ saveFile' = st.file
           /\ wrote' = st.wrote
    /\ p4page' = page
    /\ lastEvent' = ev.kind
    /\ UNCHANGED <<app, session, choice, uploaded, download, savedFile, verdict>>
    /\ UNCHANGED notAppVars

P4Open ==
    /\ events = 0
    /\ events' = 1
    /\ P4Run(Ev("open", "", 0, 0, ""), p4page)

P4Navigate ==
    /\ Interact
    /\ \E p \in P4Pages : P4Run(Ev("navigate", "", 0, 0, ""), p)

P4EditText ==
    /\ Interact
    /\ \E n \in NameSamples :
          \/ /\ p4page = "Presentation du Projet"
             /\ \E k \in {"projet_titre", "pres_prob"} : P4Run(Ev("text", k, 0, 0, n), p4page)
          \/ /\ p4page = "Analyse de Marche"
             /\ \E k \in {"marche_titre"} \cup (IF app = "p4" THEN {"criteres_column_name"} ELSE {}) :
                   P4Run(Ev("text", k, 0, 0, n), p4page)
          \/ /\ p4page = "Strategie Commerciale"
             /\ P4Run(Ev("text", "strategie_titre", 0, 0, n), p4page)
          \/ /\ p4page = "Plan Financier"
             /\ P4Run(Ev("text", "financier_titre", 0, 0, n), p4page)
          \/ /\ p4page = "Details Techniques"
             /\ P4Run(Ev("text", "technique_titre", 0, 0, n), p4page)

P4EditTable ==
    /\ Interact
    /\ \/ /\ p4page = "Analyse de Marche"
          /\ \E k \in {"marche_cibles_table", "competitors_comparison_table"} :
                P4Run(Ev("edit_table", k, 0, 0, "modifie"), p4page)
       \/ /\ p4page = "Strategie Commerciale"
          /\ P4Run(Ev("edit_table", "projections_table", 0, 0, "modifie"), p4page)
       \/ /\ p4page = "Plan Financier"
          /\ P4Run(Ev("edit_table", "financement_table", 0, 0, "modifie"), p4page)

P4Reset ==
    /\ Interact
    /\ P4Run(Ev("reset", "", 0, 0, ""), p4page)

NextApps ==
    \/ Ft3Open \/ Ft3Navigate \/ Ft3EditNumber \/ Ft3EditText \/ Ft3AddRow
    \/ Ft3EditCell \/ Ft3DeleteRow \/ Ft3ApplyCsv \/ Ft3Save \/ Ft3Reset
    \/ Ft3Upload \/ Ft3RemoveUpload \/ Ft3Download \/ Ft3UploadSaved
    \/ P4Open \/ P4Navigate \/ P4EditText \/ P4EditTable \/ P4Reset

SpecApps == InitApps /\ [][NextApps]_vars

RssiDistanceInRange ==
    measured # NoMeasure =>
        IF measured.rssi = 0
        THEN measured.distance = FromInt(-1)
        ELSE /\ ~FLess(measured.distance, FromInt(1))
             /\ ~FLess(FromInt(100), measured.distance)

\* C11: calculate_financial_metrics always hands back the 16 metric keys.
\* Whatever the imported table, the dict returned has exactly the 16 keys;
\* when a step raised, the exception was swallowed, the totals computed
\* before it are in the dict and the keys of the later steps ('van', 'tri',
\* the depreciation and the VAT) still hold their defaults, 0 and None.
MetricsAlwaysComplete ==
    (imported.done /\ ~imported.empty) =>
        LET metrics == imported.metrics
        IN  /\ DOMAIN metrics = MetricKeys
            /\ Cardinality(DOMAIN metrics) = 16
            /\ metrics["total_ventes"] = Num(SumMontant(imported.df, "ventes"))
            /\ metrics["total_immobilisations"] =
                   Num(SumMontant(imported.df, "immobilisation"))
            /\ imported.raised # "none" =>
                  /\ metrics["tri"] = None
                  /\ \A k \in {"van", "amortissement_annuel", "tva_collectee",
                                "tva_deductible_achats", "tva_deductible_immo",
                                "tva_nette"} : metrics[k] = Num(FZero)

\* C11 witness: an exception was swallowed after the totals of a table with a
\* depreciable fixed asset and taxed sales were computed.
MetricsKeptAfterException ==
    /\ imported.done
    /\ imported.raised = "NameError"
    /\ FPositive(imported.metrics["total_immobilisations"].f)
    /\ FPositive(imported.metrics["cash_flow_mensuel"].f)
    /\ FPositive(SumRated(imported.df, "immobilisation", "taux_amort", TRUE))
    /\ FPositive(SumRated(imported.df, "ventes", "taux_tva", FALSE))
    /\ imported.metrics["amortissement_annuel"] = Num(FZero)
    /\ imported.metrics["van"] = Num(FZero)

VanFromLibraryCall ==
    (imported.done /\ ~imported.empty
        /\ FPositive(imported.metrics["cash_flow_mensuel"].f)) =>
        /\ imported.metrics["van"] =
               Num(npv(MonthlyRate, imported.metrics["total_immobilisations"].f,
                       imported.metrics["cash_flow_mensuel"].f, 60))
        /\ imported.metrics["tri"].kind = "irr * 12"

RECURSIVE InterestsAtStoredRate(_)
\* the yearly interests of the credits at the rate stored with each of them
InterestsAtStoredRate(credits) ==
    IF credits = <<>> THEN <<>>
    ELSE LET c == Head(credits)
             rest == InterestsAtStoredRate(Tail(credits))
         IN  IF HasSchedule(c) THEN <<FMul(c.Montant, c.Taux)>> \o rest ELSE rest

\* C25, as stated: a credit entered as r percent on the Investments page is
\* stored with the rate r/100, and that value is the annual rate of the
\* amortization page, of the financial charges of the income statement and
\* of the credit table of the PDF report; the financial charges shown are
\* the yearly interests at that rate.
CreditRateInOneUnit ==
    /\ \A i \in 1..Len(statement.credits) :
          LET c == statement.credits[i]
          IN  HasSchedule(c) =>
                 /\ AmortizationRate(c) = c.Taux
                 /\ PagePeriodicRate(c, "Annuelle") = c.Taux
                 /\ ChargesRate(c) = c.Taux
                 /\ PdfPeriodicRate(c) = c.Taux
    /\ (statement.page = "Compte de Resultat"
        /\ InterestsAtStoredRate(statement.credits) # <<>>) =>
          statement.income_statement[KeyFinance][1]
             = SumValues(InterestsAtStoredRate(statement.credits))

\* C26, as stated: a run of the Cash Flow page leaves
\* st.session_state.income_statement as it was, and the lists of turnover
\* and operating charges always have the length of the lists of financial
\* charges and net result.
CashFlowLeavesIncomeStatement ==
    /\ [](statement.income_statement # EmptyDict =>
             /\ Len(statement.income_statement[KeyCa])
                   = Len(statement.income_statement[KeyFinance])
             /\ Len(statement.income_statement[KeyCharges])
                   = Len(statement.income_statement[KeyNet]))
    /\ [][statement'.page = "Cash Flow" =>
             statement'.income_statement = statement.income_statement]_vars

\* C21: the VAT on fixed assets is deducted in the first month only, and
\* the indicator "Total TVA nette due" is the sum of the monthly "TVA NETTE
\* DUE" values: collected - deductible on purchases - deductible on fixed
\* assets in month 1, collected - deductible on purchases in the others.
TvaNetteTotalIsSumOfMonths ==
    vat.shown =>
        LET n == vat.num_months
            tva_immo == IF vat.data.tva_immobilisations = <<>> THEN 0
                        ELSE vat.data.tva_immobilisations[1]
            due == vat.data.vente_tva - vat.data.achat_tva
        IN  /\ Len(vat.row_immo) = n /\ Len(vat.tva_nette) = n
            /\ vat.row_immo[1] = tva_immo
            /\ \A mo \in 2..n : vat.row_immo[mo] = 0
            /\ vat.tva_nette[1] = due - tva_immo
            /\ \A mo \in 2..n : vat.tva_nette[mo] = due
            /\ vat.total_tva_nette = RoundToCentimes(SumAmounts(vat.tva_nette))

\* C21 witness: a budget over twelve months with a fixed-asset VAT that
\* makes the first month differ from the others.
TvaImmoInFirstMonthOnly ==
    /\ vat.shown
    /\ vat.num_months = 12
    /\ vat.row_immo[1] > 0
    /\ vat.tva_nette[1] < 0
    /\ vat.tva_nette[2] > 0
    /\ vat.total_tva_nette.centimes > 0

\* C20: the treasury balances of show_monthly_cashflow follow the recurrence.
\* After a run soldes has num_months + 1 entries, the first is the sum of the
\* resources minus the sum of the fixed assets, each later one is its
\* predecessor plus (total receipts - total disbursements), and the
\* indicator "Solde final" shows the entry of month num_months.
SoldesRecurrence ==
    cashflow.shown =>
        LET soldes == cashflow.soldes
            monthly == FSub(cashflow.total_encaissement, cashflow.total_decaissement)
        IN  /\ Len(soldes) = cashflow.num_months + 1
            /\ cashflow.total_encaissement = SumValues(cashflow.data.chiffre_affaires)
            /\ cashflow.total_decaissement = SumValues(cashflow.data.charges_exploitation)
            /\ soldes[1] = FSub(SumValues(cashflow.data.ressources),
                                SumValues(cashflow.data.immobilisations))
            /\ \A k \in 1..cashflow.num_months :
                   soldes[k + 1] = FAdd(soldes[k], monthly)
            /\ cashflow.solde_final = Format2f(soldes[cashflow.num_months + 1])

\* C20 witness: twelve months with a balance that changes every month, after
\* an edit of the receipts.
SoldesOverTwelveMonths ==
    /\ cashflow.shown
    /\ cashflow.num_months = 12
    /\ cashflow.data.chiffre_affaires # DefaultCashflowData.chiffre_affaires
    /\ \A k \in 1..12 : cashflow.soldes[k + 1] # cashflow.soldes[k]
    /\ cashflow.solde_final # Format2f(cashflow.soldes[1])

\* C22, as stated: at most one monitor loop is polling at any time, whatever
\* the sequence of starts and stops.
AtMostOneMonitorLoop ==
    Cardinality({ t \in Threads : pc[t] \notin {"none", "unused", "done"} }) <= 1

\* C23, as stated: no interleaving of "Clear History" with a monitor
\* iteration makes the monitor thread execute pop(0) on an empty history.
NoPopOnEmptyHistory ==
    [][\A t \in Threads : (pc[t] = "pop" /\ pc'[t] # "pop") => history # <<>>]_vars

\* C24: the indicator of the dashboard and the flag of the analyzer stay in
\* step.  st.session_state.monitoring_active equals analyzer.monitoring in
\* every state, and a step changes one exactly when it changes the other.
IndicatorFollowsFlag ==
    /\ [](monitoring_active = monitoring)
    /\ [][(monitoring_active' # monitoring_active) <=> (monitoring' # monitoring)]_vars

\* C24 witness: monitoring was started and stopped again; a thread of the
\* first start is still in its loop.
IndicatorOffAfterStop ==
    /\ ~monitoring_active
    /\ ~monitoring
    /\ \E t \in Threads : pc[t] \in {"scan", "sleep"}

\* C16: the monitoring history is bounded.  With one monitor thread the
\* history holds at most 100 records whenever the thread is past its trim
\* step, the records are the most recently appended ones in append order,
\* and a trim drops exactly the oldest record.
HistoryBounded ==
    /\ [](/\ pc[1] # "trim" => Len(history) <= HistoryLimit
          /\ \A i \in 1..Len(history) : history[i] = stamp - Len(history) + i)
    /\ [][pc[1] = "trim" /\ pc'[1] = "sleep" /\ Len(history) > HistoryLimit
              => history' = Tail(history)]_vars

\* C16 witness: the thread has trimmed a history of 101 records twice.
HistoryTrimmedTwice ==
    /\ pc[1] = "sleep"
    /\ Len(history) = HistoryLimit
    /\ history[1] = 3

(***************************************************************************)
(* Properties of the form apps                                             *)
(***************************************************************************)

\* C15, as stated: loading the document made by get_session_data_as_json
\* gives every exported key the value it had when the document was made.
SaveThenLoadRestores ==
    [][(lastEvent' = "upload" /\ uploaded' = SavedIndex) =>
          LET restored == LoadDataFromJson(InitSessionState(session), savedFile.doc)
          IN  \A k \in ExportedKeys \cap DOMAIN savedFile.from :
                 restored[k] = savedFile.from[k]]_vars

\* C18, as stated: load_data_from_json leaves the session alone when the
\* content is not valid JSON; when it is valid, every top-level key of the
\* file but 'metadata' is assigned, 'metadata' is never stored and the other
\* session keys keep their values.
LoadAllOrNothing ==
    [][(lastEvent' = "upload") =>
          LET before == InitSessionState(session)
              doc    == UploadedDoc(uploaded', savedFile)
              after  == LoadDataFromJson(before, doc)
          IN  IF ~doc.valid
              THEN after = before
              ELSE /\ \A k \in DOMAIN doc.data \ {"metadata"} :
                        k \in DOMAIN after /\ after[k] = doc.data[k]
                   /\ "metadata" \notin DOMAIN after
                   /\ \A k \in DOMAIN before \ DOMAIN doc.data :
                        after[k] = before[k]]_vars

Restrict(d, keep) == [k \in DOMAIN d \cap keep |-> d[k]]

\* C2: init_session_state sets a key only when the key is absent: on the
\* current session, and on the session short of any one key, it leaves every
\* present key at its value, gives every absent key its default, and running
\* it a second time changes nothing.
InitSessionStateFrame ==
    app = "ft3" =>
        \A keep \in {DOMAIN session} \cup {DOMAIN session \ {k} : k \in DOMAIN session} :
            LET before == Restrict(session, keep)
                after  == InitSessionState(before)
            IN  /\ DOMAIN after = keep \cup SessionKeys
                /\ \A k \in keep : after[k] = before[k]
                /\ \A k \in SessionKeys \ keep : after[k] = DefaultSession[k]
                /\ InitSessionState(after) = after

\* C2 witness: a later run has called init_session_state on a session that
\* holds a value the user typed.
InitRanOverUserData ==
    /\ app = "ft3"
    /\ lastEvent = "navigate"
    /\ session # EmptyDict
    /\ session.investment_data.web_dev = 100

\* C3, as stated: every total stored in calculated_data equals the value
\* recomputed from the current immos, credits, subsidies, frais_preliminaires
\* and investment_data.
TotalsMatchInputs ==
    (app = "ft3" /\ session # EmptyDict) =>
        LET c     == session.calculated_data
            inv   == session.investment_data
            Has(k) == k \in DOMAIN c
            immos == SumField(session.immos, "Montant")
            creds == SumField(session.credits, "Montant")
            subs  == SumField(session.subsidies, "Montant")
            frais == inv.brand_registration + inv.sarl_formation
        IN  /\ Has("total_immos") => c["total_immos"] = immos
            /\ Has("total_credits") => c["total_credits"] = creds
            /\ Has("total_subsidies") => c["total_subsidies"] = subs
            /\ Has("total_frais") =>
                  c["total_frais"] \in {frais, SumField(session.frais_preliminaires, "valeur")}
            /\ Has("total_investissement") =>
                  c["total_investissement"] = frais + immos + inv.web_dev
            /\ Has("total_financement") =>
                  c["total_financement"] =
                      inv.cash_contribution + inv.in_kind + creds + subs

RECURSIVE AllNonNegative(_, _)
\* every row of rows has a non-negative field
AllNonNegative(rows, field) ==
    IF rows = <<>> THEN TRUE
    ELSE Head(rows)[field] >= 0 /\ AllNonNegative(Tail(rows), field)

\* C4, as stated: every amount of investment_data, immos, credits, subsidies,
\* actif_data and passif_data is non-negative.
AmountsNonNegative ==
    (app = "ft3" /\ session # EmptyDict) =>
        /\ \A f \in DOMAIN session.investment_data : session.investment_data[f] >= 0
        /\ AllNonNegative(session.immos, "Montant")
        /\ AllNonNegative(session.credits, "Montant")
        /\ AllNonNegative(session.subsidies, "Montant")
        /\ \A sec \in DOMAIN session.actif_data :
              AllNonNegative(session.actif_data[sec], "value")
        /\ \A sec \in DOMAIN session.passif_data :
              AllNonNegative(session.passif_data[sec], "value")

====
